---- MODULE Spec2Model ----
(***************************************************************************)
(* YMODEM sender of ElenaWatchDevTools (src/src/ymodem.ts) on the Node.js  *)
(* event loop.  One action is one macrotask (a call of transfer, a 'data'  *)
(* event of the port, the completion callback of a port write, a timer)    *)
(* together with all the promise continuations that macrotask triggers.   *)
(***************************************************************************)
EXTENDS Integers, Sequences, FiniteSets, TLC

\* ---------------------------------------------------------------- constants
SOH == 1
STX == 2
EOT == 4
ACK == 6
NAK == 21
CA == 24
ASCII_C == 67
PACKET_SIZE_128 == 128
PACKET_SIZE_1024 == 1024

\* ------------------------------------------------------------------- bounds
MaxTransfers == 2      \* calls of transfer() in one run
MaxChunk == 2          \* bytes in one 'data' event
MaxBuf == 2            \* bytes held in receiveBuffer
MaxCommands == 2       \* invocations of run-JS and send-file in one run

Transfers == 1..MaxTransfers
Commands == 1..MaxCommands
TerminalOwner == 0     \* owner id of the terminal's own 'data' listener
RxBytes == {ASCII_C, ACK, NAK, CA}
FileNames == {"a.js"}
FileSizes == {0, 1025}

Min(a, b) == IF a < b THEN a ELSE b

\* The bytes a receiver sends in a session of n data packets, in the order
\* transfer() waits for them.
Replies(n) ==
    <<ASCII_C, ACK, ASCII_C>> \o [k \in 1..n |-> ACK] \o <<NAK, ACK, ASCII_C, ACK>>

\* the same bytes, each behind a byte that the wait it answers does not accept
Noisy(replies) ==
    [k \in 1..(2 * Len(replies)) |->
        IF k % 2 = 0 THEN replies[k \div 2]
        ELSE IF replies[(k + 1) \div 2] = ACK THEN NAK ELSE CA]

\* 'data' events of the port: every chunk of up to MaxChunk bytes, and the
\* replies of a whole session arriving in one chunk
Bursts == {Replies(0), Replies(2), Noisy(Replies(0)), Noisy(Replies(2))}
Chunks == UNION {[1..k -> RxBytes] : k \in 1..MaxChunk} \cup Bursts

\* ------------------------------------------------------------------ packets
\* A packet is described by the arguments it was built from; the bytes on the
\* wire are a function of these.
NoPkt == [form |-> "none", type |-> 0, block |-> 0, name |-> "", size |-> 0,
          off |-> 0, len |-> 0]

\* the block number is stored without the mask 0xFF
buildPacket_BlockUnmasked(off, len, blockNum, packetSize) ==
    [form |-> "data",
     type |-> IF packetSize = PACKET_SIZE_128 THEN SOH ELSE STX,
     block |-> blockNum,
     name |-> "", size |-> 0,
     off |-> off, len |-> Min(len, packetSize)]

buildPacket(off, len, blockNum, packetSize) ==
    [form |-> "data",
     type |-> IF packetSize = PACKET_SIZE_128 THEN SOH ELSE STX,
     block |-> blockNum % 256,
     name |-> "", size |-> 0,
     off |-> off, len |-> Min(len, packetSize)]

buildHeaderPacket(filename, filesize) ==
    [form |-> "header", type |-> SOH, block |-> 0,
     name |-> filename, size |-> filesize, off |-> 0, len |-> 0]

EotPacket ==
    [form |-> "eot", type |-> EOT, block |-> 0, name |-> "", size |-> 0,
     off |-> 0, len |-> 0]

\* every tail shorter than 1024 bytes is cut into 128-byte packets
RECURSIVE SplitFrom_SmallTail(_, _, _)
SplitFrom_SmallTail(total, offset, block) ==
    IF offset < total
    THEN LET remaining == total - offset
             chunkSize == IF remaining < PACKET_SIZE_1024
                          THEN PACKET_SIZE_128 ELSE PACKET_SIZE_1024
             chunkLen == Min(remaining, chunkSize)
         IN  <<buildPacket(offset, chunkLen, block, chunkSize)>>
             \o SplitFrom_SmallTail(total, offset + chunkSize, block + 1)
    ELSE <<>>

RECURSIVE SplitFrom(_, _, _)
SplitFrom(total, offset, block) ==
    IF offset < total
    THEN LET remaining == total - offset
             chunkSize == IF remaining <= PACKET_SIZE_128
                          THEN PACKET_SIZE_128 ELSE PACKET_SIZE_1024
             chunkLen == Min(remaining, chunkSize)
         IN  <<buildPacket(offset, chunkLen, block, chunkSize)>>
             \o SplitFrom(total, offset + chunkSize, block + 1)
    ELSE <<>>

\* every packet is a 1024-byte packet
splitFileToPackets_AlwaysStx(total) ==
    [k \in 1..Len(SplitFrom(total, 0, 1)) |->
        [SplitFrom(total, 0, 1)[k] EXCEPT !.type = STX]]

\* a loop that tests after its body: an empty file gets one padded packet
splitFileToPackets_PadsEmpty(total) ==
    IF total = 0 THEN <<buildPacket(0, 0, 1, PACKET_SIZE_128)>>
    ELSE SplitFrom(total, 0, 1)

splitFileToPackets(total) == SplitFrom(total, 0, 1)

\* --------------------------------------------------- the body of transfer()
\* A statement of transfer(): "await waitChar(serial, valid)",
\* "await serial.write(pkt)", the progress lines of the loop, or the return.
StWait(valid) ==
    [op |-> "wait", valid |-> valid, pkt |-> NoPkt, cur |-> 0, await |-> TRUE]
\* the write is started and not awaited
StWrite_NotAwaited(pkt) ==
    [op |-> "write", valid |-> {}, pkt |-> pkt, cur |-> 0, await |-> FALSE]

StWrite(pkt) ==
    [op |-> "write", valid |-> {}, pkt |-> pkt, cur |-> 0, await |-> TRUE]
StProgress(cur) ==
    [op |-> "progress", valid |-> {}, pkt |-> NoPkt, cur |-> cur, await |-> FALSE]
StReturn ==
    [op |-> "return", valid |-> {}, pkt |-> NoPkt, cur |-> 0, await |-> FALSE]

\* the loop does not wait for the ACK of a data packet
RECURSIVE DataLoop_NoAckWait(_, _)
DataLoop_NoAckWait(packets, i) ==
    IF i < Len(packets)
    THEN <<StWrite(packets[i + 1]), StProgress(i + 1)>>
         \o DataLoop_NoAckWait(packets, i + 1)
    ELSE <<>>

\* the loop writes the first packet on every iteration
RECURSIVE DataLoop_SamePacket(_, _)
DataLoop_SamePacket(packets, i) ==
    IF i < Len(packets)
    THEN <<StWrite(packets[1]), StWait({ACK}), StProgress(i + 1)>>
         \o DataLoop_SamePacket(packets, i + 1)
    ELSE <<>>

\* the loop reports progress before the ACK of the packet was awaited
RECURSIVE DataLoop_ProgressFirst(_, _)
DataLoop_ProgressFirst(packets, i) ==
    IF i < Len(packets)
    THEN <<StWrite(packets[i + 1]), StProgress(i + 1), StWait({ACK})>>
         \o DataLoop_ProgressFirst(packets, i + 1)
    ELSE <<>>

RECURSIVE DataLoop(_, _)
DataLoop(packets, i) ==
    IF i < Len(packets)
    THEN <<StWrite(packets[i + 1]), StWait({ACK}), StProgress(i + 1)>>
         \o DataLoop(packets, i + 1)
    ELSE <<>>

\* the session ends with the header of the file instead of the empty header
TransferBody_SecondHeader(filename, totalBytes) ==
    <<StWait({ASCII_C}),
      StWrite(buildHeaderPacket(filename, totalBytes)),
      StWait({ACK}),
      StWait({ASCII_C})>>
    \o DataLoop(splitFileToPackets(totalBytes), 0)
    \o <<StWrite(EotPacket),
         StWait({NAK}),
         StWrite(EotPacket),
         StWait({ACK}),
         StWait({ASCII_C}),
         StWrite(buildHeaderPacket(filename, totalBytes)),
         StWait({ACK}),
         StReturn>>

\* the wait for 'C' after the ACK of the header is missing
TransferBody_NoDataReady(filename, totalBytes) ==
    <<StWait({ASCII_C}),
      StWrite(buildHeaderPacket(filename, totalBytes)),
      StWait({ACK})>>
    \o DataLoop(splitFileToPackets(totalBytes), 0)
    \o <<StWrite(EotPacket),
         StWait({NAK}),
         StWrite(EotPacket),
         StWait({ACK}),
         StWait({ASCII_C}),
         StWrite(buildHeaderPacket("", 0)),
         StWait({ACK}),
         StReturn>>

\* The statements of transfer() in execution order, the loop unrolled over
\* the packets of the file.
TransferBody(filename, totalBytes) ==
    <<StWait({ASCII_C}),
      StWrite(buildHeaderPacket(filename, totalBytes)),
      StWait({ACK}),
      StWait({ASCII_C})>>
    \o DataLoop(splitFileToPackets(totalBytes), 0)
    \o <<StWrite(EotPacket),
         StWait({NAK}),
         StWrite(EotPacket),
         StWait({ACK}),
         StWait({ASCII_C}),
         StWrite(buildHeaderPacket("", 0)),
         StWait({ACK}),
         StReturn>>

\* --------------------------------------------------------------------- state
VARIABLES
    receiveBuffer,   \* the module-level Buffer
    appendedBy,      \* history: for each buffered byte, whose handler appended it
    listeners,       \* 'data' listeners of the port, in registration order
    timers,          \* pending setTimeout timers of waitChar calls
    pending,         \* port writes in flight, oldest first
    status,          \* per transfer: idle, waiting, writing, done, failed
    pc,              \* per transfer: index of the current statement
    file,            \* per transfer: the arguments of the call
    writtenBytes,    \* per transfer: the local of that name
    events,          \* history: per transfer, its matches, writes and progress calls
    err,             \* per transfer: the error it was rejected with
    result,          \* per transfer: the value it resolved with
    hasRemoveAll,    \* whether the transport offers removeAllListeners
    dropped,         \* history: a chunk arrived during a transfer and no handler took it
    writeErrors,     \* history: the writes the port reported an error for
    now,             \* the clock, in ticks
    deadlines,       \* for each pending timer, when it was set and when it is due
    fn,              \* the function applied to arg, for the checks of single functions
    arg,             \* its input
    out,             \* its result
    rx,              \* the receiver: replies sent so far, bytes still on the line
    loop,            \* the event loop: the macrotask that ran last, the port
    runJS,           \* the commands that send a file: invocations, what they sent
    term             \* the terminal: input line and command history

vars == <<receiveBuffer, appendedBy, listeners, timers, pending, status, pc,
          file, writtenBytes, events, err, result, hasRemoveAll, dropped,
          writeErrors, now, deadlines, fn, arg, out, rx, loop, runJS, term>>

NoFile == [name |-> "", size |-> 0]
NoResult == [filePath |-> "", totalBytes |-> 0 - 1, writtenBytes |-> 0 - 1]

EvMatch(b) == [e |-> "match", byte |-> b, pkt |-> NoPkt, cur |-> 0, tot |-> 0]
EvWrite(p) == [e |-> "write", byte |-> 0, pkt |-> p, cur |-> 0, tot |-> 0]
EvProgress(c, n) == [e |-> "progress", byte |-> 0, pkt |-> NoPkt, cur |-> c, tot |-> n]

Body(s, t) == TransferBody(s.file[t].name, s.file[t].size)
NumPackets(f) == Len(splitFileToPackets(f.size))

\* ------------------------------------------------------ receive synchronizer
\* only the first byte of the buffer is looked at
FirstValid_HeadOnly(buf, valid) ==
    IF buf # <<>> /\ buf[1] \in valid THEN 1 ELSE 0

\* extractCharFromBuffer: index of the first byte of buf that is in valid, or 0
FirstValid(buf, valid) ==
    IF \E i \in 1..Len(buf) : buf[i] \in valid
    THEN CHOOSE i \in 1..Len(buf) :
            buf[i] \in valid /\ \A j \in 1..(i - 1) : buf[j] \notin valid
    ELSE 0

\* the whole buffer is dropped on a match
extractCharFromBuffer_ClearsAll(buf, valid) ==
    LET i == FirstValid(buf, valid)
    IN  IF i > 0
        THEN [found |-> TRUE, char |-> buf[i], rest |-> <<>>, cut |-> Len(buf)]
        ELSE [found |-> FALSE, char |-> 0, rest |-> buf, cut |-> 0]

extractCharFromBuffer(buf, valid) ==
    LET i == FirstValid(buf, valid)
    IN  IF i > 0
        THEN [found |-> TRUE, char |-> buf[i], rest |-> SubSeq(buf, i + 1, Len(buf)),
              cut |-> i]
        ELSE [found |-> FALSE, char |-> 0, rest |-> buf, cut |-> 0]

\* removeListener is given another function object: nothing is removed
RemoveListener_Nothing(ls, owner, step) == ls

RemoveListener(ls, owner, step) ==
    SelectSeq(ls, LAMBDA l : ~(l.owner = owner /\ l.step = step))

clearDataListeners(s) ==
    IF s.hasRemoveAll THEN [s EXCEPT !.listeners = <<>>] ELSE s

\* the check of the buffer at the start of waitChar is left out
initialCheck_Skipped(buf, valid) ==
    [found |-> FALSE, char |-> 0, rest |-> buf, cut |-> 0]

\* the check at the start of waitChar leaves the buffer as it is on a match
initialCheck_KeepsBuffer(buf, valid) ==
    [extractCharFromBuffer(buf, valid) EXCEPT !.rest = buf, !.cut = 0]

\* waitChar first looks for an accepted byte among the bytes already buffered
initialCheck(buf, valid) == extractCharFromBuffer(buf, valid)

\* writtenBytes is not capped by the size of the file
writtenAfter_Uncapped(i, totalBytes) == i * PACKET_SIZE_1024

\* writtenBytes after the ACK of the i-th data packet (i = 1, 2, ..)
writtenAfter(i, totalBytes) == Min(i * PACKET_SIZE_1024, totalBytes)

\* The Error of the timer callback of waitChar called at statement step: its
\* message is the fixed text "Timeout waiting for receiver".
timeoutError(step) == "Timeout"

\* ------------------------------------------------------ promise continuations
\* Resume(s, t): transfer t runs from statement pc[t] until it suspends.
\* ready is the queue of continuations still to run in this macrotask.
RECURSIVE Resume(_, _)
Resume(s, t) ==
    LET st == Body(s, t)[s.pc[t]] IN
    CASE st.op = "wait" ->
            LET x == initialCheck(s.receiveBuffer, st.valid) IN
            IF x.found
            THEN [s EXCEPT !.receiveBuffer = x.rest,
                           !.appendedBy = SubSeq(@, x.cut + 1, Len(@)),
                           !.events[t] = Append(@, EvMatch(x.char)),
                           !.pc[t] = @ + 1,
                           !.ready = Append(@, t)]
            ELSE [s EXCEPT !.status[t] = "waiting",
                           !.timers = @ \cup {[owner |-> t, step |-> s.pc[t]]},
                           !.listeners = Append(@, [owner |-> t, step |-> s.pc[t],
                                                    valid |-> st.valid])]
      [] st.op = "write" ->
            LET s1 == [s EXCEPT !.events[t] = Append(@, EvWrite(st.pkt)),
                                !.pending = Append(@, [owner |-> t,
                                                       step |-> s.pc[t]])]
            IN  IF st.await
                THEN [s1 EXCEPT !.status[t] = "writing"]
                ELSE Resume([s1 EXCEPT !.pc[t] = @ + 1], t)
      [] st.op = "progress" ->
            Resume([s EXCEPT !.writtenBytes[t] =
                                 writtenAfter(st.cur, s.file[t].size),
                             !.events[t] = Append(@, EvProgress(st.cur,
                                                        NumPackets(s.file[t]))),
                             !.pc[t] = @ + 1], t)
      [] st.op = "return" ->
            [s EXCEPT !.status[t] = "done",
                      !.result[t] = [filePath |-> s.file[t].name,
                                     totalBytes |-> s.file[t].size,
                                     writtenBytes |-> s.writtenBytes[t]]]

RECURSIVE Drain(_)
Drain(s) ==
    IF s.ready = <<>> THEN s
    ELSE Drain(Resume([s EXCEPT !.ready = Tail(@)], Head(s.ready)))

\* "export let outputChannel: SerialTerminal;" of extension.ts: the binding
\* that ymodem.ts imports.  No line of extension.ts assigns it, so its value
\* is undefined in every call of dataHandler.
outputChannelAssigned == FALSE

\* the scan of dataHandler after the append: lines 118-123
scanAfterAppend(s, l) ==
    LET x == extractCharFromBuffer(s.receiveBuffer, l.valid)
        live == s.status[l.owner] = "waiting" /\ s.pc[l.owner] = l.step
    IN  IF x.found
        THEN LET s1 == [s EXCEPT !.receiveBuffer = x.rest,
                                 !.appendedBy = SubSeq(@, x.cut + 1, Len(@)),
                                 !.timers = @ \ {[owner |-> l.owner, step |-> l.step]},
                                 !.listeners = RemoveListener(@, l.owner, l.step)]
             IN  IF live
                 THEN [s1 EXCEPT !.events[l.owner] = Append(@, EvMatch(x.char)),
                                 !.status[l.owner] = "ready",
                                 !.pc[l.owner] = @ + 1,
                                 !.ready = Append(@, l.owner)]
                 ELSE s1
        ELSE s

\* a CAN byte in the chunk rejects the wait
dataHandler_Cancels(s, l, data) ==
    LET s1 == [s EXCEPT !.receiveBuffer = @ \o data,
                        !.appendedBy = @ \o [k \in 1..Len(data) |-> l.owner]]
    IN  IF /\ s.status[l.owner] = "waiting"
           /\ s.pc[l.owner] = l.step
           /\ \E k \in 1..Len(data) : data[k] = CA
        THEN [s1 EXCEPT !.timers = @ \ {[owner |-> l.owner, step |-> l.step]},
                        !.listeners = RemoveListener(@, l.owner, l.step),
                        !.status[l.owner] = "failed",
                        !.err[l.owner] = "Cancelled"]
        ELSE s1

\* dataHandler of the waitChar call l, run on one chunk.  The chunk is appended
\* (line 115); outputChannel.append(..) (line 116) throws a TypeError when
\* outputChannel is undefined, and the scan (lines 118-123) is not reached.
dataHandler(s, l, data) ==
    LET s1 == [s EXCEPT !.receiveBuffer = @ \o data,
                        !.appendedBy = @ \o [k \in 1..Len(data) |-> l.owner]]
    IN  IF outputChannelAssigned THEN scanAfterAppend(s1, l) ELSE s1

\* emit('data', chunk): the listeners registered when the event fires, in
\* order; an exception thrown by a listener leaves emit, and the listeners
\* after it are not called
RECURSIVE Emit(_, _, _)
Emit(s, ls, data) ==
    IF ls = <<>> THEN s
    ELSE IF Head(ls).owner = TerminalOwner THEN Emit(s, Tail(ls), data)
    ELSE IF outputChannelAssigned
         THEN Emit(dataHandler(s, Head(ls), data), Tail(ls), data)
         ELSE dataHandler(s, Head(ls), data)

\* ------------------------------------------------------------------- actions
State ==
    [receiveBuffer |-> receiveBuffer, appendedBy |-> appendedBy,
     listeners |-> listeners, timers |-> timers, pending |-> pending,
     status |-> status, pc |-> pc, file |-> file, writtenBytes |-> writtenBytes,
     events |-> events, err |-> err, result |-> result,
     hasRemoveAll |-> hasRemoveAll, dropped |-> dropped,
     writeErrors |-> writeErrors, ready |-> <<>>]

CommitEngine(s) ==
    /\ receiveBuffer' = s.receiveBuffer
    /\ appendedBy' = s.appendedBy
    /\ listeners' = s.listeners
    /\ timers' = s.timers
    /\ pending' = s.pending
    /\ status' = s.status
    /\ pc' = s.pc
    /\ file' = s.file
    /\ writtenBytes' = s.writtenBytes
    /\ events' = s.events
    /\ err' = s.err
    /\ result' = s.result
    /\ hasRemoveAll' = s.hasRemoveAll
    /\ dropped' = s.dropped
    /\ writeErrors' = s.writeErrors

\* the clock does not move and no single function is applied
Commit(s) ==
    /\ CommitEngine(s)
    /\ UNCHANGED <<now, deadlines, fn, arg, out, rx, loop, runJS, term>>

InFlight(t) == status[t] \in {"waiting", "writing", "ready"}
EngineListeners(ls) == SelectSeq(ls, LAMBDA l : l.owner # TerminalOwner)

EngineInit ==
    /\ receiveBuffer = <<>>
    /\ appendedBy = <<>>
    /\ listeners = <<[owner |-> TerminalOwner, step |-> 0, valid |-> {}]>>
    /\ timers = {}
    /\ pending = <<>>
    /\ status = [t \in Transfers |-> "idle"]
    /\ pc = [t \in Transfers |-> 0]
    /\ file = [t \in Transfers |-> NoFile]
    /\ writtenBytes = [t \in Transfers |-> 0]
    /\ events = [t \in Transfers |-> <<>>]
    /\ err = [t \in Transfers |-> "none"]
    /\ result = [t \in Transfers |-> NoResult]
    /\ hasRemoveAll \in BOOLEAN
    /\ dropped = FALSE
    /\ writeErrors = {}

\* the clock at 0, the receiver silent, the port connected and open, no
\* command invoked, the input line of the terminal empty
OthersIdle ==
    /\ now = 0 /\ deadlines = {}
    /\ rx = [sent |-> 0, line |-> <<>>]
    /\ loop = [last |-> "none", flip |-> 0, port |-> "open", dead |-> 0]
    /\ runJS = [cmd |-> [c \in Commands |->
                            [kind |-> "none", pc |-> "idle", t |-> 0]],
                sent |-> <<>>]
    /\ term = [inputBuffer |-> <<>>, commandHistory |-> <<>>,
               historyIndex |-> 0 - 1, currentCommandBeforeHistory |-> <<>>,
               isSending |-> FALSE]

Init == EngineInit /\ OthersIdle /\ fn = "none" /\ arg = <<>> /\ out = <<>>

\* the state after the macrotask in which transfer() is called
transferFx(t, filename, totalBytes) ==
    Drain(Resume(
        clearDataListeners([State EXCEPT
            !.file[t] = [name |-> filename, size |-> totalBytes],
            !.status[t] = "ready",
            !.pc[t] = 1]), t))

\* transfer(serial, filename, fileBuffer) is called
transfer(t, filename, totalBytes) ==
    /\ status[t] = "idle"
    /\ \A u \in 1..(t - 1) : status[u] # "idle"
    /\ Commit(transferFx(t, filename, totalBytes))

\* the state after the macrotask of one 'data' event
DeliverFx(data) ==
    Drain(Emit(
        [State EXCEPT !.dropped = @ \/ ((\E t \in Transfers : InFlight(t))
                                        /\ EngineListeners(listeners) = <<>>)],
        listeners, data))

\* The buffer is followed while it holds at most MaxBuf bytes, or one burst;
\* the chunk is appended once by each handler that emit runs.
DeliverFits(data) ==
    LET handlers == IF outputChannelAssigned
                    THEN Len(EngineListeners(listeners))
                    ELSE Min(1, Len(EngineListeners(listeners)))
    IN  IF data \in Bursts THEN receiveBuffer = <<>>
        ELSE Len(receiveBuffer) + Len(data) * handlers <= MaxBuf

\* the port emits 'data' with one chunk
Deliver(data) ==
    /\ DeliverFits(data)
    /\ Commit(DeliverFx(data))

\* "await serial.write(..)" of transfer w.owner: the promise resolved
writeResolved(s, w) ==
    IF s.status[w.owner] = "writing" /\ s.pc[w.owner] = w.step
    THEN [s EXCEPT !.status[w.owner] = "ready",
                   !.pc[w.owner] = @ + 1,
                   !.ready = Append(@, w.owner)]
    ELSE s

\* the rejection is swallowed and transfer() goes on
writeRejected_Swallowed(s, w) == writeResolved(s, w)

\* "await serial.write(..)" of transfer w.owner: the promise rejected, the
\* exception leaves transfer()
writeRejected(s, w) ==
    IF s.status[w.owner] = "writing" /\ s.pc[w.owner] = w.step
    THEN [s EXCEPT !.status[w.owner] = "failed",
                   !.err[w.owner] = "WriteFailure"]
    ELSE s

\* the timer callback rejects and leaves the listener registered
waitTimeout_KeepsListener(s, tm) ==
    IF s.status[tm.owner] = "waiting" /\ s.pc[tm.owner] = tm.step
    THEN [s EXCEPT !.status[tm.owner] = "failed",
                   !.err[tm.owner] = timeoutError(tm.step)]
    ELSE s

\* the timer callback removes the listener and never rejects
waitTimeout_NoReject(s, tm) ==
    [s EXCEPT !.listeners = RemoveListener(@, tm.owner, tm.step)]

\* the setTimeout callback of the waitChar call tm
waitTimeout(s, tm) ==
    LET s1 == [s EXCEPT !.listeners = RemoveListener(@, tm.owner, tm.step)]
    IN  IF s.status[tm.owner] = "waiting" /\ s.pc[tm.owner] = tm.step
        THEN [s1 EXCEPT !.status[tm.owner] = "failed",
                        !.err[tm.owner] = timeoutError(tm.step)]
        ELSE s1

RemoveAt(q, k) == SubSeq(q, 1, k - 1) \o SubSeq(q, k + 1, Len(q))

\* the state after the callback of the k-th pending write reported success
WriteDoneAt(k) ==
    Drain(writeResolved([State EXCEPT !.pending = RemoveAt(@, k)], pending[k]))

\* the callback of the oldest port write reports success
WriteDone ==
    /\ pending # <<>>
    /\ Commit(WriteDoneAt(1))

\* the state after the callback of the k-th pending write reported an error
WriteFailAt(k) ==
    Drain(writeRejected(
        [State EXCEPT !.pending = RemoveAt(@, k),
                      !.writeErrors = @ \cup {pending[k]}],
        pending[k]))

\* the callback of the oldest port write reports an error
WriteFail ==
    /\ pending # <<>>
    /\ Commit(WriteFailAt(1))

TimeoutFx(tm) == Drain(waitTimeout([State EXCEPT !.timers = @ \ {tm}], tm))

\* the timer of a waitChar call fires
Timeout(t) ==
    \E tm \in timers :
        /\ tm.owner = t
        /\ Commit(TimeoutFx(tm))

Next ==
    \/ \E t \in Transfers, f \in FileNames, n \in FileSizes : transfer(t, f, n)
    \/ \E d \in Chunks : Deliver(d)
    \/ WriteDone
    \/ WriteFail
    \/ \E t \in Transfers : Timeout(t)

Spec == Init /\ [][Next]_vars

\* --------------------------------- one transfer at a time, with the clock
MaxTime == 4           \* the clock stops here
TimeoutTicks == 2      \* the timeout of waitChar, in ticks

TimerOf(d) == [owner |-> d.owner, step |-> d.step]

\* setTimeout(.., timeout) runs once in each waitChar call that registers a
\* listener; clearTimeout and the firing of a timer end it
setTimeouts(s) ==
    {d \in deadlines : TimerOf(d) \in s.timers}
    \cup {[owner |-> tm.owner, step |-> tm.step, since |-> now,
           at |-> now + TimeoutTicks] : tm \in s.timers \ timers}

CommitTimed(s) ==
    /\ CommitEngine(s)
    /\ deadlines' = setTimeouts(s)
    /\ UNCHANGED <<now, fn, arg, out, rx, loop, runJS, term>>

\* transfer() is called when the transfer before it has settled
OneTransfer(t, filename, totalBytes) ==
    /\ status[t] = "idle"
    /\ \A u \in 1..(t - 1) : status[u] \in {"done", "failed"}
    /\ CommitTimed(transferFx(t, filename, totalBytes))

OneDeliver(data) ==
    /\ DeliverFits(data)
    /\ CommitTimed(DeliverFx(data))

OneWriteDone ==
    /\ pending # <<>>
    /\ CommitTimed(WriteDoneAt(1))

OneWriteFail ==
    /\ pending # <<>>
    /\ CommitTimed(WriteFailAt(1))

\* a timer fires no earlier than it is due
OneTimeout ==
    \E d \in deadlines :
        /\ TimerOf(d) \in timers
        /\ now >= d.at
        /\ CommitTimed(TimeoutFx(TimerOf(d)))

Tick ==
    /\ now < MaxTime
    /\ now' = now + 1
    /\ UNCHANGED <<receiveBuffer, appendedBy, listeners, timers, pending, status,
                   pc, file, writtenBytes, events, err, result, hasRemoveAll,
                   dropped, writeErrors, deadlines, fn, arg, out, rx, loop,
                   runJS, term>>

\* the file names given to a transfer: sendFile passes the base name
\* of the chosen path, and transfer() itself takes any string
OneFileNames == FileNames \cup {""}

NextOne ==
    \/ \E t \in Transfers, f \in OneFileNames, n \in FileSizes :
            OneTransfer(t, f, n)
    \/ \E d \in Chunks : OneDeliver(d)
    \/ OneWriteDone
    \/ OneWriteFail
    \/ OneTimeout
    \/ Tick

SpecOne == Init /\ [][NextOne]_vars

\* ----------------------------- one transfer at a time and a receiver that replies
\* The receiver of the file, started anew for every transfer: it sends 'C'
\* once the transfer was called and then the reply transfer() waits for after
\* each write, some time after the write was handed to the port.  rx.sent
\* counts the replies sent in this session, rx.line holds the bytes sent and
\* not yet delivered in a 'data' event.
RxFileSize == 2050     \* the file of three data packets, in bytes

\* the transfer called last
RxCurrent ==
    IF \A t \in Transfers : status[t] = "idle" THEN 0
    ELSE CHOOSE t \in Transfers :
            status[t] # "idle" /\ \A u \in Transfers : u > t => status[u] = "idle"

RxWrites ==
    LET w == SelectSeq(events[RxCurrent], LAMBDA e : e.e = "write")
    IN  [k \in 1..Len(w) |-> w[k].pkt]

\* the reply to the k-th packet written
RxReply(k) ==
    LET pkt == RxWrites[k]
        firstEot == \A j \in 1..(k - 1) : RxWrites[j].form # "eot"
    IN  IF pkt.form = "data" THEN <<ACK>>
        ELSE IF pkt.form = "eot" THEN (IF firstEot THEN <<NAK>> ELSE <<ACK, ASCII_C>>)
        ELSE IF pkt.name = "" THEN <<ACK>>
        ELSE <<ACK, ASCII_C>>

RxOwes ==
    /\ RxCurrent # 0
    /\ rx.sent = 0 \/ Len(RxWrites) >= rx.sent

CommitRx(s, r) ==
    /\ CommitEngine(s)
    /\ rx' = r
    /\ UNCHANGED <<now, deadlines, fn, arg, out, loop, runJS, term>>

\* transfer() is called when the transfer before it has settled and the
\* receiver of that session has nothing left to say
RxTransfer(t, totalBytes) ==
    /\ status[t] = "idle"
    /\ \A u \in 1..(t - 1) : status[u] \in {"done", "failed"}
    /\ rx.line = <<>>
    /\ CommitRx(transferFx(t, "a.js", totalBytes), [sent |-> 0, line |-> <<>>])

\* the receiver sends its next reply
RxSend ==
    /\ RxOwes
    /\ CommitRx(State,
                [sent |-> rx.sent + 1,
                 line |-> rx.line \o (IF rx.sent = 0 THEN <<ASCII_C>>
                                      ELSE RxReply(rx.sent))])

\* the port emits 'data' with the first n bytes on the line
RxDeliver(n) ==
    /\ n <= Len(rx.line)
    /\ CommitRx(DeliverFx(SubSeq(rx.line, 1, n)),
                [rx EXCEPT !.line = SubSeq(@, n + 1, Len(@))])

RxWriteDone ==
    /\ pending # <<>>
    /\ CommitRx(WriteDoneAt(1), rx)

\* The receiver replies well within the timeout: a timer fires only when the
\* receiver owes no reply, the line is empty and no write is in flight.
RxTimeout ==
    /\ ~RxOwes
    /\ rx.line = <<>>
    /\ pending = <<>>
    /\ \E tm \in timers : CommitRx(TimeoutFx(tm), rx)

NextRx ==
    \/ \E t \in Transfers, n \in FileSizes \cup {RxFileSize} : RxTransfer(t, n)
    \/ RxSend
    \/ \E n \in 1..MaxChunk : RxDeliver(n)
    \/ RxWriteDone
    \/ RxTimeout

SpecRx == Init /\ [][NextRx]_vars


\* --------------------------------------- transfers on a running event loop
\* The event loop runs the callback of every timer that is due, and a port
\* calls back every write.  loop.last is the kind of the macrotask that ran
\* last and loop.flip changes with every macrotask.
\*
\* loop.port is the port of the terminal and of the commands:
\*   "open"     connected and open;
\*   "closed"   closed by deactivate(), the reference is kept (isOpen false);
\*   "none"     disconnectSerialPort has run: serialPort is null, no terminal;
\*   "opening"  connectSerialPort has made a new port that is not open yet.
\* Only an open port emits 'data' and reports a write as done.  A new port has
\* the listener of the terminal and no other; the listeners and the writes of
\* the port it replaces are never served again: listeners holds the listeners
\* of the port connected last, and the loop.dead oldest entries of pending are
\* writes to a port that was replaced.
PortOpen == loop.port = "open"
NoPort == loop.port = "none"

Ran(l, kind) == [l EXCEPT !.last = kind, !.flip = 1 - @]

\* SerialTerminal.disconnectSerialPort: the port is closed and forgotten
disconnectSerialPort(l) == [l EXCEPT !.port = "none"]

\* deactivate(): serialPort.close() on the open port
deactivate(l) == [l EXCEPT !.port = "closed"]

\* SerialTerminal.connectSerialPort: a new port; what is still pending was
\* written to a port before it
connectSerialPort(l) == [l EXCEPT !.port = "opening", !.dead = Len(pending)]

\* what a step on the port leaves alone: all but listeners and loop
PortFrame ==
    UNCHANGED <<receiveBuffer, appendedBy, timers, pending, status, pc, file,
                writtenBytes, events, err, result, hasRemoveAll, dropped,
                writeErrors, now, deadlines, fn, arg, out, rx, runJS, term>>

CommitLoop(s, l) ==
    /\ CommitEngine(s)
    /\ loop' = l
    /\ UNCHANGED <<now, deadlines, fn, arg, out, rx, runJS, term>>

\* transfer() is called, by sendFile or by another caller, with the wrapper of
\* the port connected last; nothing waits for an earlier transfer
LoopTransfer(t, filename, totalBytes) ==
    /\ status[t] = "idle"
    /\ \A u \in 1..(t - 1) : status[u] # "idle"
    /\ CommitLoop(transferFx(t, filename, totalBytes), Ran(loop, "call"))

LoopDeliver(data) ==
    /\ PortOpen
    /\ DeliverFits(data)
    /\ CommitLoop(DeliverFx(data), Ran(loop, "data"))

\* the open port reports its oldest write as done
LoopWriteDone ==
    /\ PortOpen
    /\ loop.dead < Len(pending)
    /\ CommitLoop(WriteDoneAt(loop.dead + 1), Ran(loop, "write"))

\* a port reports an error for its oldest write: the port connected last, or
\* a port that was replaced
LoopWriteFail(k) ==
    /\ k <= Len(pending)
    /\ k <= loop.dead + 1
    /\ CommitLoop(WriteFailAt(k), Ran([loop EXCEPT !.dead = IF k <= @ THEN @ - 1 ELSE @], "write"))

LoopTimeout ==
    \E tm \in timers : CommitLoop(TimeoutFx(tm), Ran(loop, "timer"))

\* disconnectSerialPort runs: SerialTerminal.disconnect(), the close of the
\* terminal, or the 'error' or 'close' event of the port.  The listeners and
\* timers of the engine are left alone.
LoopClose ==
    /\ ~NoPort
    /\ loop' = Ran(disconnectSerialPort(loop), "close")
    /\ UNCHANGED listeners
    /\ PortFrame

\* deactivate() closes the open port and keeps the reference
LoopDeactivate ==
    /\ PortOpen
    /\ loop' = Ran(deactivate(loop), "deactivate")
    /\ UNCHANGED listeners
    /\ PortFrame

\* createTerminalHandler: SerialTerminal.create makes a terminal when there is
\* none, and the open of its pty calls connectSerialPort
LoopConnect ==
    /\ NoPort
    /\ loop' = Ran(connectSerialPort(loop), "connect")
    /\ listeners' = <<[owner |-> TerminalOwner, step |-> 0, valid |-> {}]>>
    /\ PortFrame

\* the port made by connectSerialPort opens
LoopOpened ==
    /\ loop.port = "opening"
    /\ loop' = Ran([loop EXCEPT !.port = "open"], "open")
    /\ UNCHANGED listeners
    /\ PortFrame

NextLoop ==
    \/ \E t \in Transfers, f \in FileNames, n \in FileSizes : LoopTransfer(t, f, n)
    \/ \E d \in Chunks : LoopDeliver(d)
    \/ LoopWriteDone
    \/ \E k \in Transfers : LoopWriteFail(k)
    \/ LoopTimeout
    \/ LoopClose
    \/ LoopDeactivate
    \/ LoopConnect
    \/ LoopOpened

\* A step of NextLoop is a step of WriteSettles exactly if it is LoopWriteDone
\* or LoopWriteFail, and of TimerFires exactly if it is LoopTimeout; each is
\* enabled exactly when those are.
WriteSettles ==
    /\ pending # <<>>
    /\ \E d \in {loop.dead, loop.dead - 1} :
          loop' = Ran([loop EXCEPT !.dead = d], "write")
TimerFires == timers # {} /\ loop' = Ran(loop, "timer")

\* every write of a port is called back, every timer that was set fires
SpecLoop ==
    Init /\ [][NextLoop]_vars /\ WF_loop(WriteSettles) /\ WF_loop(TimerFires)


\* ------------------------------------- the run-JS and send-file commands
\* runJSHandler: test the port and the editor, save the document, send 'yrcv',
\* await sendFile(activeFile), send 'js --stop' and the run command.
\* sendFileHandler: test the port, let the user pick a file, call sendFile and
\* return without awaiting it.  sendFile reads the file, awaits transfer()
\* inside try/catch and returns false on every path.  A handler returns to
\* the event loop at every await; nothing keeps a command from being invoked
\* while an earlier invocation is suspended.
\*
\* runJS.cmd[c] is the c-th invocation of a command: which command (kind), its
\* position pc and the transfer t that its sendFile started (0 if none).
\* runJS.sent is what SerialTerminal.send has written, in order, each entry
\* with the invocation that sent it and whether the port was open.
StopCommand == "js --stop"
RunCommand == "js a.js --stack N"

\* SerialTerminal.send(value) with a port: value is written to it
send(r, c, value) ==
    [r EXCEPT !.sent = @ \o <<[by |-> c, text |-> value, open |-> PortOpen]>>]

\* sendFile of invocation c has returned.  sendFileHandler did not wait for
\* it.  runJSHandler goes on after "await sendFile(..)" with the two sends;
\* without a port the first send throws a TypeError on the null reference
\* and the handler ends.
sendFileReturned(r, c) ==
    IF r.cmd[c].kind # "run" THEN [r EXCEPT !.cmd[c].pc = "done"]
    ELSE IF NoPort THEN [r EXCEPT !.cmd[c].pc = "threw"]
    ELSE [send(send(r, c, StopCommand), c, RunCommand) EXCEPT !.cmd[c].pc = "done"]

\* every invocation from c on whose transfer has settled in engine state s
\* leaves sendFile
RECURSIVE afterSendFileFrom(_, _, _)
afterSendFileFrom(s, r, c) ==
    IF c > MaxCommands THEN r
    ELSE IF r.cmd[c].pc = "sending" /\ s.status[r.cmd[c].t] \in {"done", "failed"}
         THEN afterSendFileFrom(s, sendFileReturned(r, c), c + 1)
         ELSE afterSendFileFrom(s, r, c + 1)

CommitRun(s, r, l) ==
    /\ CommitEngine(s)
    /\ runJS' = afterSendFileFrom(s, r, 1)
    /\ loop' = l
    /\ UNCHANGED <<now, deadlines, fn, arg, out, rx, term>>

\* run-JS is invoked: without an open port or without an active editor the
\* handler shows a message and returns; otherwise it calls save() and is
\* suspended there, with nothing sent
RunJS(c, activeFile) ==
    /\ runJS.cmd[c].pc = "idle"
    /\ \A u \in 1..(c - 1) : runJS.cmd[u].pc # "idle"
    /\ CommitRun(State,
                 [runJS EXCEPT !.cmd[c].kind = "run",
                               !.cmd[c].pc =
                                   IF ~PortOpen THEN "noport"
                                   ELSE IF activeFile = "" THEN "noeditor"
                                   ELSE "saving"],
                 loop)

\* save() resolved: 'yrcv' is sent and sendFile starts reading the file;
\* without a port send throws a TypeError and the handler ends, nothing sent
RunSaved(c) ==
    /\ runJS.cmd[c].pc = "saving"
    /\ CommitRun(State,
                 IF NoPort THEN [runJS EXCEPT !.cmd[c].pc = "threw"]
                 ELSE [send(runJS, c, "yrcv") EXCEPT !.cmd[c].pc = "reading"],
                 loop)

\* send-file is invoked: without an open port the handler shows a message and
\* returns; otherwise it shows the list of files and is suspended there
SendFile(c) ==
    /\ runJS.cmd[c].pc = "idle"
    /\ \A u \in 1..(c - 1) : runJS.cmd[u].pc # "idle"
    /\ CommitRun(State,
                 [runJS EXCEPT !.cmd[c].kind = "send",
                               !.cmd[c].pc = IF ~PortOpen THEN "noport"
                                             ELSE "picking"],
                 loop)

\* the list of files was answered: nothing picked, a listed file picked and
\* sendFile called, or the file dialog asked for
SendPicked(c, pick) ==
    /\ runJS.cmd[c].pc = "picking"
    /\ CommitRun(State,
                 [runJS EXCEPT !.cmd[c].pc =
                     IF pick = "cancel" THEN "cancelled"
                     ELSE IF pick = "file" THEN "reading"
                     ELSE "dialog"],
                 loop)

\* the file dialog was answered: with a file sendFile is called
SendDialog(c, chosen) ==
    /\ runJS.cmd[c].pc = "dialog"
    /\ CommitRun(State,
                 [runJS EXCEPT !.cmd[c].pc =
                     IF chosen THEN "reading" ELSE "cancelled"],
                 loop)

\* readFile resolved: sendFile calls transfer() with the bytes of the file.
\* Without a port createSerialPortWrapper throws on the null reference inside
\* the try block: sendFile returns without a transfer.
RunRead(c, totalBytes) ==
    /\ runJS.cmd[c].pc = "reading"
    /\ IF NoPort
       THEN CommitRun(State, sendFileReturned(runJS, c), loop)
       ELSE \E t \in Transfers :
               /\ status[t] = "idle"
               /\ \A u \in 1..(t - 1) : status[u] # "idle"
               /\ CommitRun(transferFx(t, "a.js", totalBytes),
                            [runJS EXCEPT !.cmd[c].pc = "sending", !.cmd[c].t = t],
                            loop)

\* readFile rejected: the catch block of sendFile reports it, sendFile returns
RunReadFail(c) ==
    /\ runJS.cmd[c].pc = "reading"
    /\ CommitRun(State, sendFileReturned(runJS, c), loop)

RunDeliver(data) ==
    /\ PortOpen
    /\ DeliverFits(data)
    /\ CommitRun(DeliverFx(data), runJS, loop)

RunWriteDone ==
    /\ PortOpen
    /\ loop.dead < Len(pending)
    /\ CommitRun(WriteDoneAt(loop.dead + 1), runJS, loop)

RunWriteFail(k) ==
    /\ k <= Len(pending)
    /\ k <= loop.dead + 1
    /\ CommitRun(WriteFailAt(k), runJS,
                 [loop EXCEPT !.dead = IF k <= @ THEN @ - 1 ELSE @])

RunTimeout ==
    \E tm \in timers : CommitRun(TimeoutFx(tm), runJS, loop)

\* disconnectSerialPort runs
RunClose ==
    /\ ~NoPort
    /\ loop' = disconnectSerialPort(loop)
    /\ UNCHANGED listeners
    /\ PortFrame

\* deactivate() closes the open port and keeps the reference
RunDeactivate ==
    /\ PortOpen
    /\ loop' = deactivate(loop)
    /\ UNCHANGED listeners
    /\ PortFrame

\* a new terminal is created and connectSerialPort makes a new port
RunConnect ==
    /\ NoPort
    /\ loop' = connectSerialPort(loop)
    /\ listeners' = <<[owner |-> TerminalOwner, step |-> 0, valid |-> {}]>>
    /\ PortFrame

\* the new port opens
RunOpened ==
    /\ loop.port = "opening"
    /\ loop' = [loop EXCEPT !.port = "open"]
    /\ UNCHANGED listeners
    /\ PortFrame

NextRun ==
    \/ \E c \in Commands, f \in {"", "a.js"} : RunJS(c, f)
    \/ \E c \in Commands : RunSaved(c)
    \/ \E c \in Commands : SendFile(c)
    \/ \E c \in Commands, p \in {"cancel", "file", "other"} : SendPicked(c, p)
    \/ \E c \in Commands, b \in BOOLEAN : SendDialog(c, b)
    \/ \E c \in Commands, n \in FileSizes : RunRead(c, n)
    \/ \E c \in Commands : RunReadFail(c)
    \/ \E d \in {<<ASCII_C>>, <<CA>>, Replies(0), Replies(2)} : RunDeliver(d)
    \/ RunWriteDone
    \/ \E k \in Transfers : RunWriteFail(k)
    \/ RunTimeout
    \/ RunClose
    \/ RunDeactivate
    \/ RunConnect
    \/ RunOpened

\* the commands pass the wrapper of createSerialPortWrapper to transfer(): it
\* has write, on and removeListener, and no removeAllListeners
InitRun == Init /\ ~hasRemoveAll

SpecRun == InitRun /\ [][NextRun]_vars


\* ------------------------------------------------- the terminal's input line
\* SerialTerminal (SerialTerminalProvider with command history): the fields
\* inputBuffer, commandHistory, historyIndex, currentCommandBeforeHistory and
\* isSending are the fields of term.  A string is the sequence of its
\* characters.
HISTORY_LIMIT == 100
MaxInput == 1          \* characters typed into one input line

KeyUp == "ESC[A"
KeyDown == "ESC[B"
KeyEnter == "CR"
KeyBackspace == "DEL"
TermChars == {"a", "b", " "}
TermInputs == {KeyUp, KeyDown, KeyEnter, KeyBackspace} \cup TermChars

\* !command.trim(): the command has no character other than white space
IsBlank(command) == \A k \in 1..Len(command) : command[k] = " "

\* a command equal to the last entry is pushed again
addToCommandHistory_NoDupCheck(tm, command) ==
    IF IsBlank(command) THEN tm
    ELSE LET pushed == Append(tm.commandHistory, command)
         IN  [tm EXCEPT !.commandHistory =
                            IF Len(pushed) > HISTORY_LIMIT THEN Tail(pushed)
                            ELSE pushed,
                        !.historyIndex = 0 - 1,
                        !.currentCommandBeforeHistory = <<>>]

addToCommandHistory(tm, command) ==
    IF IsBlank(command) THEN tm
    ELSE IF /\ Len(tm.commandHistory) > 0
            /\ tm.commandHistory[Len(tm.commandHistory)] = command
    THEN tm
    ELSE LET pushed == Append(tm.commandHistory, command)
         IN  [tm EXCEPT !.commandHistory =
                            IF Len(pushed) > HISTORY_LIMIT THEN Tail(pushed)
                            ELSE pushed,
                        !.historyIndex = 0 - 1,
                        !.currentCommandBeforeHistory = <<>>]

showHistoryCommand(tm) ==
    IF tm.historyIndex = 0 - 1
    THEN [tm EXCEPT !.inputBuffer = tm.currentCommandBeforeHistory]
    ELSE [tm EXCEPT !.inputBuffer =
                        tm.commandHistory[Len(tm.commandHistory) - tm.historyIndex]]

exitHistoryMode(tm) ==
    [tm EXCEPT !.historyIndex = 0 - 1, !.currentCommandBeforeHistory = <<>>]

handleArrowKeys(tm, data) ==
    IF data = KeyUp
    THEN LET saved == IF tm.historyIndex = 0 - 1
                      THEN [tm EXCEPT !.currentCommandBeforeHistory = tm.inputBuffer]
                      ELSE tm
             newIndex == IF tm.historyIndex < Len(tm.commandHistory) - 1
                         THEN tm.historyIndex + 1
                         ELSE tm.historyIndex
         IN  IF newIndex # tm.historyIndex
             THEN showHistoryCommand([saved EXCEPT !.historyIndex = newIndex])
             ELSE saved
    ELSE LET newIndex == IF tm.historyIndex > 0 - 1
                         THEN tm.historyIndex - 1
                         ELSE tm.historyIndex
         IN  IF newIndex # tm.historyIndex
             THEN showHistoryCommand([tm EXCEPT !.historyIndex = newIndex])
             ELSE tm

\* handleUserInput(data); writable: whether the port takes the command, else
\* sendToSerial runs the callback at once
handleUserInput(tm, data, writable) ==
    IF tm.isSending THEN tm
    ELSE IF data \in {KeyUp, KeyDown} THEN handleArrowKeys(tm, data)
    ELSE IF data = KeyEnter
    THEN IF Len(tm.inputBuffer) = 0 THEN tm
         ELSE [addToCommandHistory(tm, tm.inputBuffer) EXCEPT
                   !.isSending = writable,
                   !.inputBuffer = <<>>]
    ELSE IF data = KeyBackspace
    THEN IF Len(tm.inputBuffer) > 0
         THEN [tm EXCEPT !.inputBuffer = SubSeq(@, 1, Len(@) - 1)]
         ELSE tm
    ELSE [(IF tm.historyIndex # 0 - 1 THEN exitHistoryMode(tm) ELSE tm) EXCEPT
              !.inputBuffer = Append(@, data)]

CommitTerm(tm) ==
    /\ term' = tm
    /\ UNCHANGED <<receiveBuffer, appendedBy, listeners, timers, pending, status,
                   pc, file, writtenBytes, events, err, result, hasRemoveAll,
                   dropped, writeErrors, now, deadlines, fn, arg, out, rx, loop,
                   runJS>>

\* the terminal hands one input to handleInput
TermInput(data, writable) ==
    /\ data \in TermChars => Len(term.inputBuffer) < MaxInput
    /\ CommitTerm(handleUserInput(term, data, writable))

\* the write callback of sendToSerial
TermSent ==
    /\ term.isSending
    /\ CommitTerm([term EXCEPT !.isSending = FALSE])

NextTerm ==
    \/ \E data \in TermInputs, writable \in BOOLEAN : TermInput(data, writable)
    \/ TermSent

SpecTerm == Init /\ [][NextTerm]_vars

\* ------------------------------------------------------- views of the history
Last(q) == q[Len(q)]

\* the packets transfer t handed to serial.write, in order
Writes(t) ==
    LET w == SelectSeq(events[t], LAMBDA e : e.e = "write")
    IN  [k \in 1..Len(w) |-> w[k].pkt]

\* the matches and writes of transfer t, in order (progress calls left out)
Protocol(t) == SelectSeq(events[t], LAMBDA e : e.e # "progress")

HeaderOf(t) == buildHeaderPacket(file[t].name, file[t].size)
Terminator == buildHeaderPacket("", 0)
PacketsOf(t) == splitFileToPackets(file[t].size)
IsData(e) == e.e = "write" /\ e.pkt.form = "data"

OwnsListener(t) == \E k \in 1..Len(listeners) : listeners[k].owner = t
OwnsTimer(t) == \E tm \in timers : tm.owner = t
OwnsWrite(t) == \E k \in 1..Len(pending) : pending[k].owner = t

\* ----------------------------------------------------------------- claim C1
\* C1: when transfer() has returned, the packets it wrote are exactly the
\* header(filename, size), the data packets of the file in order, EOT, EOT and
\* the terminator header("", 0): nothing else, nothing twice.
C1_WriteSequence ==
    \A t \in Transfers :
        status[t] = "done" =>
            Writes(t) = <<HeaderOf(t)>> \o PacketsOf(t)
                        \o <<EotPacket, EotPacket, Terminator>>

C1_Witness ==
    \E t \in Transfers : status[t] = "done" /\ Len(PacketsOf(t)) = 2

\* ----------------------------------------------------------------- claim C2
\* C2: every write is preceded by the control bytes the state table asks for:
\* 'C' before the header; header, ACK, 'C' before the first data packet; the
\* last data packet and its ACK before the first EOT; EOT, NAK before the
\* second EOT; EOT, ACK, 'C' before the terminator; terminator, ACK before
\* the return.
C2_Gated(t) ==
    LET p == Protocol(t)
        n == Len(PacketsOf(t))
        eots == {k \in 1..Len(p) : p[k] = EvWrite(EotPacket)}
        datas == {k \in 1..Len(p) : IsData(p[k])}
        Before(k, q) == /\ k > Len(q)
                        /\ \A j \in 1..Len(q) : p[k - Len(q) + j - 1] = q[j]
    IN  /\ \A k \in 1..Len(p) :
            /\ p[k] = EvWrite(HeaderOf(t)) => Before(k, <<EvMatch(ASCII_C)>>)
            /\ (k \in datas /\ \A j \in datas : k <= j) =>
                  Before(k, <<EvWrite(HeaderOf(t)), EvMatch(ACK), EvMatch(ASCII_C)>>)
            /\ (k \in eots /\ \A j \in eots : k <= j) /\ n > 0 =>
                  Before(k, <<EvWrite(PacketsOf(t)[n]), EvMatch(ACK)>>)
            /\ (k \in eots /\ \E j \in eots : j < k) =>
                  Before(k, <<EvWrite(EotPacket), EvMatch(NAK)>>)
            /\ p[k] = EvWrite(Terminator) =>
                  Before(k, <<EvWrite(EotPacket), EvMatch(ACK), EvMatch(ASCII_C)>>)
        /\ status[t] = "done" =>
              Before(Len(p) + 1, <<EvWrite(Terminator), EvMatch(ACK)>>)

C2_WritesGated == \A t \in Transfers : C2_Gated(t)

C2_Witness ==
    \E t \in Transfers :
        /\ status[t] = "done"
        /\ Len(PacketsOf(t)) = 2
        /\ Len(Protocol(t)) = 15

\* ----------------------------------------------------------------- claim C3
\* C3: between the writes of two data packets an ACK was matched: a data
\* packet is written only when every earlier one has been acknowledged.
C3_Lockstep ==
    \A t \in Transfers :
        LET p == Protocol(t) IN
        \A k \in 1..Len(p), m \in 1..Len(p) :
            (k < m /\ IsData(p[k]) /\ IsData(p[m])) =>
                \E j \in (k + 1)..(m - 1) : p[j] = EvMatch(ACK)

C3_Witness ==
    \E t \in Transfers :
        /\ Len(SelectSeq(events[t], IsData)) = 2
        /\ status[t] = "writing"

\* ----------------------------------------------------------------- claim C4
\* C4: a transfer never has a port write in flight while one of its waitChar
\* calls is outstanding (a 'data' listener or a timer of its own).
C4_NoOverlap ==
    \A t \in Transfers : ~(OwnsWrite(t) /\ (OwnsListener(t) \/ OwnsTimer(t)))

C4_Witness ==
    \E t \in Transfers :
        /\ OwnsWrite(t)
        /\ Len(events[t]) >= 4
        /\ \E u \in Transfers : u # t /\ OwnsListener(u)

\* ----------------------------------------------------------------- claim C5
\* C5: a transfer whose wait timed out has failed with Timeout, has no
\* result, holds no listener, timer or write, and from then on its history of
\* writes, matches and progress calls never grows.
C5_Stopped(t) ==
    /\ status[t] = "failed"
    /\ result[t] = NoResult
    /\ ~OwnsListener(t) /\ ~OwnsTimer(t) /\ ~OwnsWrite(t)

C5_TimeoutAborts ==
    /\ [](\A t \in Transfers : err[t] = "Timeout" => C5_Stopped(t))
    /\ [][\A t \in Transfers :
            /\ err[t] = "Timeout" =>
                  /\ events'[t] = events[t]
                  /\ err'[t] = "Timeout"
            /\ \A tm \in timers :
                  (/\ tm.owner = t /\ tm \notin timers'
                   /\ status[t] = "waiting" /\ events'[t] = events[t])
                  => err'[t] = "Timeout"]_vars

C5_Witness ==
    \E t \in Transfers :
        /\ err[t] = "Timeout"
        /\ events[t] # <<>>
        /\ Last(events[t]) = EvWrite(Terminator)

\* ----------------------------------------------------------------- claim C6
\* C6: a transfer whose port write was reported failed has failed with that
\* failure: the failed write is the last entry of its history for good, it
\* has no result and holds no listener, timer or write.
C6_WriteFailureAborts ==
    /\ [](\A w \in writeErrors :
            /\ err[w.owner] = "WriteFailure"
            /\ status[w.owner] = "failed"
            /\ result[w.owner] = NoResult
            /\ Last(events[w.owner]).e = "write"
            /\ ~OwnsListener(w.owner) /\ ~OwnsTimer(w.owner)
            /\ ~OwnsWrite(w.owner))
    /\ [][\A w \in writeErrors : events'[w.owner] = events[w.owner]]_vars

C6_Witness ==
    \E w \in writeErrors : IsData(Last(events[w.owner]))

\* ----------------------------------------------------------------- claim C7
\* C7: in one transfer no packet is written twice, except EOT, which is
\* written at most twice.
C7_NoRetry ==
    \A t \in Transfers :
        LET w == Writes(t) IN
        \A k \in 1..Len(w) :
            Cardinality({j \in 1..Len(w) : w[j] = w[k]})
                <= (IF w[k] = EotPacket THEN 2 ELSE 1)

C7_Witness ==
    \E t \in Transfers :
        /\ err[t] = "Timeout"
        /\ events[t] # <<>>
        /\ IsData(Last(events[t]))
        /\ \E k \in 1..Len(receiveBuffer) : receiveBuffer[k] = NAK

\* ----------------------------------------------------------------- claim C8
\* C8: every chunk the port delivers while a transfer is in flight is
\* appended to the receive buffer.
C8_NoChunkLost == dropped = FALSE

\* ----------------------------------------------------------------- claim C9
\* C9: whenever transfer() is called with no other transfer in flight, the
\* receive buffer is empty.
C9_BufferEmptyAtStart ==
    [][\A t \in Transfers :
          (/\ status[t] = "idle" /\ status'[t] # "idle"
           /\ \A u \in Transfers \ {t} : ~InFlight(u))
          => receiveBuffer = <<>>]_vars

\* ---------------------------------------------------------------- claim C10
\* C10: while two transfers are in flight, the buffer a waiting transfer
\* scans holds only bytes its own handler appended, each chunk once.
C10_BufferPerTransfer ==
    \A t \in Transfers :
        (/\ status[t] = "waiting" /\ OwnsListener(t)
         /\ \E u \in Transfers \ {t} : InFlight(u))
        => \A k \in 1..Len(appendedBy) : appendedBy[k] = t

\* ---------------------------------------------------------------- claim C11
\* C11: at most one 'data' listener of waitChar is registered on the port at
\* any moment.
C11_OneOutstandingWait == Len(EngineListeners(listeners)) <= 1

\* ---------------------------------------------------------------- claim C20
\* C20: onProgress is called with (i, n) right after the ACK of data packet i
\* was matched and before anything else is written, once per data packet and
\* in increasing order; no other acknowledgement is followed by a call.
C20_Progress(t) ==
    LET ev == events[t]
        n == Len(PacketsOf(t))
        calls == SelectSeq(ev, LAMBDA e : e.e = "progress")
    IN  /\ Len(calls) <= n
        /\ \A i \in 1..Len(calls) : calls[i] = EvProgress(i, n)
        /\ \A k \in 1..Len(ev) :
              /\ ev[k].e = "progress" =>
                    /\ k > 2
                    /\ ev[k - 1] = EvMatch(ACK)
                    /\ ev[k - 2] = EvWrite(PacketsOf(t)[ev[k].cur])
              /\ (k > 1 /\ ev[k] = EvMatch(ACK) /\ IsData(ev[k - 1])) =>
                    /\ k < Len(ev)
                    /\ ev[k + 1].e = "progress"
        /\ status[t] = "done" => Len(calls) = n

C20_ProgressCalls == \A t \in Transfers : C20_Progress(t)

C20_Witness ==
    \E t \in Transfers :
        /\ status[t] = "done"
        /\ Len(SelectSeq(events[t], LAMBDA e : e.e = "progress")) = 2

\* ---------------------------------------------------------------- claim C12
\* C12: the timer of a wait is due exactly TimeoutTicks after the call and
\* chunks without an accepted byte do not move it; a wait fails with Timeout
\* only once that time has passed and the buffer holds no accepted byte; and
\* a wait that is still pending when its time has passed can fail at once.
WaitValid(t) == TransferBody(file[t].name, file[t].size)[pc[t]].valid

C12_TimeoutExact ==
    /\ [](\A d \in deadlines : d.at = d.since + TimeoutTicks)
    /\ [](\A t \in Transfers :
            status[t] = "waiting" =>
                \E d \in deadlines :
                    /\ d.owner = t /\ d.step = pc[t]
                    /\ now >= d.at => ENABLED OneTimeout)
    /\ [][\A t \in Transfers :
            (err[t] = "none" /\ err'[t] = "Timeout") =>
                \E d \in deadlines :
                    /\ d.owner = t /\ d.step = pc[t]
                    /\ now >= d.since + TimeoutTicks
                    /\ \A k \in 1..Len(receiveBuffer) :
                          receiveBuffer[k] \notin WaitValid(t)]_vars

\* ---------------------------------------------------------------- claim C13
\* C13: a chunk delivered to a pending wait is appended to the buffer; if the
\* buffer then holds no accepted byte it is kept whole and the wait goes on;
\* otherwise the wait resolves with the leftmost accepted byte and only the
\* bytes up to and including it are removed (the waits that follow in the
\* same turn cut the rest in the same way).
RECURSIVE CutAll(_, _)
CutAll(buf, bytes) ==
    IF bytes = <<>> THEN buf
    ELSE LET i == CHOOSE k \in 1..Len(buf) :
                      buf[k] = Head(bytes) /\ \A j \in 1..(k - 1) : buf[j] # Head(bytes)
         IN  CutAll(SubSeq(buf, i + 1, Len(buf)), Tail(bytes))

C13_Post(t, data) ==
    LET V == WaitValid(t)
        all == receiveBuffer \o data
        new == SelectSeq(SubSeq(events'[t], Len(events[t]) + 1, Len(events'[t])),
                         LAMBDA e : e.e = "match")
        got == [k \in 1..Len(new) |-> new[k].byte]
    IN  IF \A k \in 1..Len(all) : all[k] \notin V
        THEN /\ receiveBuffer' = all
             /\ events'[t] = events[t]
             /\ status'[t] = "waiting"
        ELSE /\ got # <<>>
             /\ got[1] \in V
             /\ \A k \in 1..Len(got) : \E j \in 1..Len(all) : all[j] = got[k]
             /\ \E i \in 1..Len(all) :
                   /\ all[i] = got[1]
                   /\ \A j \in 1..(i - 1) : all[j] \notin V
                   /\ receiveBuffer' = CutAll(SubSeq(all, i + 1, Len(all)), Tail(got))
             /\ status'[t] # "waiting" \/ pc'[t] > pc[t]

C13_Accumulates ==
    [][\A data \in Chunks, t \in Transfers :
          (OneDeliver(data) /\ status[t] = "waiting") => C13_Post(t, data)]_vars

\* ---------------------------------------------------------- bytes of packets
\* Buffers are sequences of bytes (0..255); index k of the code is k + 1 here.
RECURSIVE BitXor(_, _, _)
BitXor(a, b, w) ==        \* a ^ b on the low w bits
    IF w = 0 THEN 0
    ELSE (((a % 2) + (b % 2)) % 2) + 2 * BitXor(a \div 2, b \div 2, w - 1)

\* The register crc of crc16xmodem is a 32-bit integer of JavaScript, kept
\* here as its two 16-bit halves: crc = hi * 2^16 + lo as a bit pattern.
\* One round of the inner loop: test bit 15, shift left, maybe XOR 0x1021.
\* the polynomial is 0x8005 (CRC-16/ARC's, unreflected) instead of 0x1021
crcShift_OtherPoly(crc) ==
    LET hi == ((crc.hi * 2) + (crc.lo \div 32768)) % 65536
        lo == (crc.lo * 2) % 65536
    IN  IF (crc.lo \div 32768) % 2 = 1
        THEN [hi |-> hi, lo |-> BitXor(lo, 32773, 16)]
        ELSE [hi |-> hi, lo |-> lo]

crcShift(crc) ==
    LET hi == ((crc.hi * 2) + (crc.lo \div 32768)) % 65536
        lo == (crc.lo * 2) % 65536
    IN  IF (crc.lo \div 32768) % 2 = 1
        THEN [hi |-> hi, lo |-> BitXor(lo, 4129, 16)]
        ELSE [hi |-> hi, lo |-> lo]

RECURSIVE crcBits(_, _)
crcBits(crc, j) == IF j < 8 THEN crcBits(crcShift(crc), j + 1) ELSE crc

\* One round of the outer loop: crc ^= byte << 8, then the eight shifts.
crcByte(crc, byte) ==
    crcBits([hi |-> crc.hi, lo |-> BitXor(crc.lo, byte * 256, 16)], 0)

\* The outer loop over i = from .. to - 1, in order.  The range is halved
\* and the left half is evaluated first (the test on left.lo is always true
\* and only fixes that order) to keep the evaluation shallow.
RECURSIVE crcBytes(_, _, _, _, _)
crcBytes(buffer, offset, from, to, crc) ==
    IF to <= from THEN crc
    ELSE IF to = from + 1 THEN crcByte(crc, buffer[offset + from + 1])
    ELSE LET mid == (from + to) \div 2
             left == crcBytes(buffer, offset, from, mid, crc)
         IN  IF left.lo >= 0
             THEN crcBytes(buffer, offset, mid, to, left)
             ELSE left

crcRegister(buffer, offset, length) ==
    crcBytes(buffer, offset, 0, length, [hi |-> 0, lo |-> 0])

\* return crc & 0xFFFF
crc16xmodem(buffer, offset, length) == crcRegister(buffer, offset, length).lo

writeUInt16BE(value) == <<value \div 256, value % 256>>

\* Buffer.alloc(packetSize, 0x1A) and data.copy(payload, 0, 0, min(...))
paddedPayload(data, packetSize) ==
    [i \in 1..packetSize |->
        IF i <= Min(Len(data), packetSize) THEN data[i] ELSE 26]

packetHeader(blockNum, packetSize) ==
    <<IF packetSize = PACKET_SIZE_128 THEN SOH ELSE STX,
      blockNum % 256,
      255 - (blockNum % 256)>>

\* the CRC covers the bytes of the chunk only, not the padding
buildPacketBytes_CrcOfData(data, blockNum, packetSize) ==
    LET payload == paddedPayload(data, packetSize)
        crc == crc16xmodem(payload, 0, Min(Len(data), packetSize))
    IN  packetHeader(blockNum, packetSize) \o payload \o writeUInt16BE(crc)

\* buildPacket, byte by byte
buildPacketBytes(data, blockNum, packetSize) ==
    LET payload == paddedPayload(data, packetSize)
        crc == crc16xmodem(payload, 0, packetSize)
    IN  packetHeader(blockNum, packetSize) \o payload \o writeUInt16BE(crc)

\* `${filesize}` for a non-negative integer: its ASCII decimal digits
RECURSIVE Digits(_)
Digits(n) ==
    IF n < 10 THEN <<48 + n>> ELSE Digits(n \div 10) \o <<48 + (n % 10)>>

\* buf.write(string, offset) for a string of one-byte characters: the bytes
\* that fit are stored from offset on; the call returns how many were stored
\* and throws when offset lies beyond the end of buf.
bufWrite(buf, bytes, offset) ==
    [i \in 1..Len(buf) |->
        IF i > offset /\ i <= offset + Len(bytes) THEN bytes[i - offset]
        ELSE buf[i]]
bufWritten(buf, bytes, offset) == Min(Len(bytes), Len(buf) - offset)

\* the size is written right after the name, without the separator byte
buildHeaderPacketBytes_NoSeparator(filename, filesize) ==
    LET zeros == [i \in 1..PACKET_SIZE_128 |-> 0]
        idx == bufWritten(zeros, filename, 0)
        named == bufWrite(zeros, filename, 0)
    IN  IF idx > PACKET_SIZE_128
        THEN [ok |-> FALSE, bytes |-> <<>>]
        ELSE LET payload == bufWrite(named, Digits(filesize), idx)
                 crc == crc16xmodem(payload, 0, PACKET_SIZE_128)
             IN  [ok |-> TRUE,
                  bytes |-> <<SOH, 0, 255>> \o payload \o writeUInt16BE(crc)]

\* buildHeaderPacket, byte by byte; ok = FALSE when payload.write throws
buildHeaderPacketBytes(filename, filesize) ==
    LET zeros == [i \in 1..PACKET_SIZE_128 |-> 0]
        idx == bufWritten(zeros, filename, 0)
        named == bufWrite(zeros, filename, 0)
    IN  IF idx + 1 > PACKET_SIZE_128
        THEN [ok |-> FALSE, bytes |-> <<>>]
        ELSE LET payload == bufWrite(named, Digits(filesize), idx + 1)
                 crc == crc16xmodem(payload, 0, PACKET_SIZE_128)
             IN  [ok |-> TRUE,
                  bytes |-> <<SOH, 0, 255>> \o payload \o writeUInt16BE(crc)]

\* ------------------------------------------- the packet functions on inputs
\* A second specification: one call of one of the pure functions of
\* ymodem.ts on an input drawn at the start.  arg = [f, data, n, m] holds the
\* function's name, its buffer argument and its two numbers; out holds the
\* result: pkts for splitFileToPackets, num for crc16xmodem, bytes and ok
\* for the packet builders.
MaxBlocks == 256       \* full 1024-byte blocks of the largest files
MaxCrcLen == 2         \* bytes of the buffers given to crc16xmodem
MaxName == 127         \* bytes of the longest file name that leaves room

Tails == {0, 1, 127, 128, 129, 1023}
SplitSizes ==
    {(k * PACKET_SIZE_1024) + r :
        k \in {0, 1, 2, MaxBlocks - 2, MaxBlocks - 1, MaxBlocks}, r \in Tails}

CrcBytes == {0, 1, 49, 128, 255}
CrcBuffers == UNION {[1..k -> CrcBytes] : k \in 0..MaxCrcLen}
CheckString == <<49, 50, 51, 52, 53, 54, 55, 56, 57>>      \* "123456789"

\* a chunk of len bytes: 0x1A when step = 0, a ramp otherwise
ChunkOf(len, step) == [i \in 1..len |-> ((i * step) + 26) % 256]
BlockNums == {0, 1, 255, 256, 257}

NameOf(len) == [i \in 1..len |-> 97 + (i % 26)]
Names == {<<>>, <<97, 46, 106, 115>>} \cup
         {NameOf(len) : len \in {MaxName - 5, MaxName - 1, MaxName, MaxName + 1}}
HeaderSizes == {0, 7, 10, 1025, 262145}

\* receive buffers given to extractCharFromBuffer
ExtractBuffers == UNION {[1..k -> RxBytes] : k \in 0..(MaxBuf + 1)}

\* ArrayBuffers behind the fileBuffer argument of transfer(), and the views
\* (byteOffset, length) a Buffer or a Uint8Array can be over each of them
Backings == {<<>>, <<7>>, <<7, 8, 9>>, ChunkOf(1030, 7)}
ViewsOf(backing) ==
    {<<o, l>> \in (0..Len(backing)) \X (0..Len(backing)) :
        /\ o + l <= Len(backing)
        /\ Len(backing) > 3 => (o \in {0, 3} /\ l \in {1025, 1030})}

Call(f, data, n, m) == [f |-> f, data |-> data, n |-> n, m |-> m]
NoOut == [ok |-> TRUE, bytes |-> <<>>, pkts |-> <<>>, num |-> 0]

PureInputs ==
    {Call("splitFileToPackets", <<>>, s, 0) : s \in SplitSizes}
    \cup {Call("crc16xmodem", b, 0, Len(b)) : b \in CrcBuffers}
    \cup {Call("crc16xmodem", b, 1, Len(b) - 1) : b \in CrcBuffers \ {<<>>}}
    \cup {Call("crc16xmodem", CheckString, 0, Len(CheckString))}
    \cup {Call("buildPacket", ChunkOf(len, step), b, PACKET_SIZE_128) :
            len \in {0, 1, 127, 128, 130}, step \in {0, 7}, b \in BlockNums}
    \cup {Call("buildPacket", ChunkOf(len, 7), b, PACKET_SIZE_1024) :
            len \in {129, 1024}, b \in {1, 256}}
    \cup {Call("buildHeaderPacket", nm, s, 0) : nm \in Names, s \in HeaderSizes}
    \cup {Call("extractCharFromBuffer", b, v, v) :
            b \in ExtractBuffers, v \in {ASCII_C, ACK, NAK}}
    \cup {Call("extractCharFromBuffer", b, ACK, NAK) : b \in ExtractBuffers}
    \cup UNION {{Call(kind, b, v[1], v[2]) : v \in ViewsOf(b)} :
                    b \in Backings, kind \in {"Buffer", "Uint8Array"}}

InitPure ==
    /\ EngineInit
    /\ OthersIdle
    /\ fn = "none"
    /\ arg \in PureInputs
    /\ out = NoOut

Returns(f, o) ==
    /\ fn = "none"
    /\ arg.f = f
    /\ fn' = f
    /\ out' = o
    /\ UNCHANGED <<receiveBuffer, appendedBy, listeners, timers, pending,
                   status, pc, file, writtenBytes, events, err, result,
                   hasRemoveAll, dropped, writeErrors, now, deadlines, arg, rx,
                   loop, runJS, term>>

callSplit ==
    Returns("splitFileToPackets", [NoOut EXCEPT !.pkts = splitFileToPackets(arg.n)])
callCrc ==
    Returns("crc16xmodem",
            [NoOut EXCEPT !.num = crc16xmodem(arg.data, arg.n, arg.m)])
callBuildPacket ==
    Returns("buildPacket",
            [NoOut EXCEPT !.bytes = buildPacketBytes(arg.data, arg.n, arg.m)])
callBuildHeader ==
    Returns("buildHeaderPacket",
            LET r == buildHeaderPacketBytes(arg.data, arg.n)
            IN  [NoOut EXCEPT !.ok = r.ok, !.bytes = r.bytes])

\* extractCharFromBuffer([arg.n, arg.m]) with receiveBuffer = arg.data
callExtract ==
    Returns("extractCharFromBuffer",
            LET r == extractCharFromBuffer(arg.data, {arg.n, arg.m})
            IN  [NoOut EXCEPT !.ok = r.found, !.num = r.char, !.bytes = r.rest])

\* the elements of a typed array over backing
viewBytes(backing, byteOffset, length) ==
    SubSeq(backing, byteOffset + 1, byteOffset + length)

\* "Buffer.isBuffer(fileBuffer) ? fileBuffer : Buffer.from(fileBuffer.buffer)":
\* Buffer.from(arrayBuffer) is a view of the whole ArrayBuffer
bufferOf(isBuffer, backing, byteOffset, length) ==
    IF isBuffer THEN viewBytes(backing, byteOffset, length) ELSE backing

\* the first lines of transfer(): buffer, packets and totalBytes
transferHead(isBuffer) ==
    LET buffer == bufferOf(isBuffer, arg.data, arg.n, arg.m)
    IN  [NoOut EXCEPT !.bytes = buffer,
                      !.pkts = splitFileToPackets(Len(buffer)),
                      !.num = Len(buffer)]

callTransferBuffer == Returns("Buffer", transferHead(TRUE))
callTransferView == Returns("Uint8Array", transferHead(FALSE))

NextPure ==
    \/ callSplit
    \/ callCrc
    \/ callBuildPacket
    \/ callBuildHeader
    \/ callExtract
    \/ callTransferBuffer
    \/ callTransferView
SpecPure == InitPure /\ [][NextPure]_vars

\* ------------------------------------------------- reference CRC-16/XMODEM
\* The remainder of the message polynomial times x^16 modulo
\* x^16 + x^12 + x^5 + 1, one message bit at a time; the 16-bit register is
\* the set of the exponents of its one bits.
Poly == {0, 5, 12}
SymDiff(A, B) == (A \ B) \cup (B \ A)
RefBit(reg, bit) ==
    LET shifted == {i + 1 : i \in reg \ {15}}
    IN  IF (15 \in reg) # (bit = 1) THEN SymDiff(shifted, Poly) ELSE shifted
RECURSIVE RefBits(_, _, _)
RefBits(reg, byte, j) ==
    IF j < 0 THEN reg
    ELSE RefBits(RefBit(reg, (byte \div (2 ^ j)) % 2), byte, j - 1)
RECURSIVE RefBytes(_, _, _, _)
RefBytes(bytes, from, to, reg) ==
    IF to <= from THEN reg
    ELSE IF to = from + 1 THEN RefBits(reg, bytes[from + 1], 7)
    ELSE LET mid == (from + to) \div 2
             left == RefBytes(bytes, from, mid, reg)
         IN  IF Cardinality(left) >= 0 THEN RefBytes(bytes, mid, to, left) ELSE left
RECURSIVE SetValue(_)
SetValue(S) ==
    IF S = {} THEN 0
    ELSE LET i == CHOOSE x \in S : TRUE IN (2 ^ i) + SetValue(S \ {i})
RefCrc(bytes) == SetValue(RefBytes(bytes, 0, Len(bytes), {}))

\* ---------------------------------------------------------------- claim C14
\* C14: the chunks of a file of S bytes cover [0, S) from left to right
\* without gap or overlap; every chunk but the last carries 1024 file bytes;
\* the last carries S mod 1024 bytes, or 1024 when that is 0.
C14_ChunksCover ==
    fn = "splitFileToPackets" =>
        LET S == arg.n
            p == out.pkts
            n == Len(p)
        IN  /\ (n = 0) <=> (S = 0)
            /\ n > 0 => /\ p[1].off = 0
                        /\ p[n].off + p[n].len = S
                        /\ p[n].len = IF S % 1024 = 0 THEN 1024 ELSE S % 1024
            /\ \A k \in 1..(n - 1) :
                  /\ p[k].len = 1024
                  /\ p[k + 1].off = p[k].off + p[k].len

C14_Witness ==
    /\ fn = "splitFileToPackets"
    /\ arg.n = (2 * 1024) + 129
    /\ Len(out.pkts) = 3
    /\ out.pkts[3].len = 129

\* ---------------------------------------------------------------- claim C15
\* C15: a data packet is a 128-byte SOH packet exactly when at most 128 file
\* bytes remained when it was built and a 1024-byte STX packet otherwise; so
\* only the last packet can be SOH, and a tail of 129..1023 bytes is one STX
\* packet whose payload is filled up with 0x1A.
C15_PacketForms ==
    fn = "splitFileToPackets" =>
        LET S == arg.n
            p == out.pkts
            n == Len(p)
        IN  /\ \A k \in 1..n :
                  /\ p[k].type \in {SOH, STX}
                  /\ (p[k].type = SOH) <=> (S - p[k].off <= 128)
                  /\ p[k].type = SOH => k = n
            /\ (S % 1024) \in 129..1023 =>
                  /\ n = (S \div 1024) + 1
                  /\ p[n].type = STX
                  /\ p[n].len = S % 1024
                  /\ LET data == ChunkOf(p[n].len, 7)
                         payload == paddedPayload(data, PACKET_SIZE_1024)
                     IN  /\ Len(payload) = 1024
                         /\ \A i \in 1..1024 :
                               payload[i] = IF i <= p[n].len THEN data[i] ELSE 26

C15_Witness ==
    /\ fn = "splitFileToPackets"
    /\ arg.n = 1024 + 129
    /\ Len(out.pkts) = 2
    /\ out.pkts[2].type = STX

\* ---------------------------------------------------------------- claim C16
\* C16: the k-th data packet of a file carries k mod 256 as its block number
\* (byte 1), and byte 2 of every packet is 0xFF minus byte 1.
PacketSizeOf(pkt) == IF pkt.type = SOH THEN PACKET_SIZE_128 ELSE PACKET_SIZE_1024

C16_BlockNumbers ==
    /\ fn = "splitFileToPackets" =>
          \A k \in 1..Len(out.pkts) :
              LET h == packetHeader(out.pkts[k].block, PacketSizeOf(out.pkts[k]))
              IN  /\ out.pkts[k].block = k % 256
                  /\ h[2] = k % 256
                  /\ h[3] = 255 - h[2]
    /\ fn = "buildPacket" =>
          /\ out.bytes[2] = arg.n % 256
          /\ out.bytes[3] = 255 - out.bytes[2]
    /\ (fn = "buildHeaderPacket" /\ out.ok) =>
          /\ out.bytes[2] = 0
          /\ out.bytes[3] = 255

C16_Witness ==
    /\ fn = "splitFileToPackets"
    /\ Len(out.pkts) = 257
    /\ out.pkts[255].block = 255
    /\ out.pkts[256].block = 0
    /\ out.pkts[257].block = 1

\* ---------------------------------------------------------------- claim C17
\* C17: for a chunk no longer than packetSize, buildPacket returns
\* 3 + packetSize + 2 bytes: SOH or STX first, the chunk followed by 0x1A up
\* to packetSize from byte 3 on, and last the CRC of that whole padded
\* payload, high byte first.
C17_Framing ==
    (fn = "buildPacket" /\ Len(arg.data) <= arg.m) =>
        LET b == out.bytes
            ps == arg.m
        IN  /\ Len(b) = 3 + ps + 2
            /\ b[1] = IF ps = 128 THEN SOH ELSE STX
            /\ \A i \in 1..ps :
                  b[3 + i] = IF i <= Len(arg.data) THEN arg.data[i] ELSE 26
            /\ (b[3 + ps + 1] * 256) + b[3 + ps + 2] = RefCrc(SubSeq(b, 4, 3 + ps))
            /\ b[3 + ps + 1] \in 0..255
            /\ b[3 + ps + 2] \in 0..255

C17_Witness ==
    /\ fn = "buildPacket"
    /\ arg.m = PACKET_SIZE_1024
    /\ Len(arg.data) = 129
    /\ Len(out.bytes) = 1029
    /\ out.bytes[3 + 130] = 26
    /\ RefCrc(arg.data) # RefCrc(SubSeq(out.bytes, 4, 1027))

\* ---------------------------------------------------------------- claim C18
\* C18: crc16xmodem returns the CRC-16/XMODEM of the bytes (16-bit register,
\* initial value 0, polynomial 0x1021, most significant bit first, no
\* reflection, no final XOR), a value in 0..0xFFFF, although its register
\* is masked to 16 bits only at the end.
C18_CrcIsXmodem ==
    fn = "crc16xmodem" =>
        /\ out.num = RefCrc(SubSeq(arg.data, arg.n + 1, arg.n + arg.m))
        /\ out.num \in 0..65535
        /\ (arg.data = CheckString /\ arg.n = 0) => out.num = 12739

C18_Witness ==
    /\ fn = "crc16xmodem"
    /\ arg.data = CheckString
    /\ crcRegister(arg.data, arg.n, arg.m).hi # 0
    /\ out.num = 12739

\* ---------------------------------------------------------------- claim C19
\* C19: when the name, one separator and the decimal digits of the size fit
\* in 128 bytes, buildHeaderPacket returns 133 bytes: SOH, 0x00, 0xFF, then
\* the name, one 0x00, the digits of the size, zeros up to 128 bytes, then
\* the CRC of these 128 bytes, high byte first.
RECURSIVE DecimalValue(_)
DecimalValue(digits) ==
    IF digits = <<>> THEN 0
    ELSE (10 * DecimalValue(SubSeq(digits, 1, Len(digits) - 1)))
         + (digits[Len(digits)] - 48)
RECURSIVE NumDigits(_)
NumDigits(n) == IF n < 10 THEN 1 ELSE 1 + NumDigits(n \div 10)

C19_HeaderLayout ==
    (fn = "buildHeaderPacket" /\ Len(arg.data) + 1 + NumDigits(arg.n) <= 128) =>
        LET b == out.bytes
            nm == arg.data
            d == NumDigits(arg.n)
            from == 3 + Len(nm) + 1
        IN  /\ out.ok
            /\ Len(b) = 133
            /\ SubSeq(b, 1, 3) = <<SOH, 0, 255>>
            /\ \A i \in 1..Len(nm) : b[3 + i] = nm[i]
            /\ b[from] = 0
            /\ \A i \in 1..d : b[from + i] \in 48..57
            /\ d > 1 => b[from + 1] # 48
            /\ DecimalValue(SubSeq(b, from + 1, from + d)) = arg.n
            /\ \A i \in (from + d + 1)..131 : b[i] = 0
            /\ (b[132] * 256) + b[133] = RefCrc(SubSeq(b, 4, 131))

C19_Witness ==
    /\ fn = "buildHeaderPacket"
    /\ Len(arg.data) = 126
    /\ arg.n = 7
    /\ out.ok
    /\ out.bytes[3 + 128] = 55

\* ---------------------------------------------------------------- claim C21
\* C21: a transfer that returns reports the file name it was given and
\* totalBytes = writtenBytes = the size of the file; and after the ACK of the
\* i-th data packet writtenBytes is the number of file bytes carried by
\* packets 1..i, never more than the size of the file.
RECURSIVE Carried(_, _)
Carried(pkts, i) == IF i = 0 THEN 0 ELSE Carried(pkts, i - 1) + pkts[i].len

Acked(t) == Len(SelectSeq(events[t], LAMBDA e : e.e = "progress"))

C21_Result ==
    \A t \in Transfers :
        /\ status[t] # "idle" =>
              /\ writtenBytes[t] = Carried(PacketsOf(t), Acked(t))
              /\ writtenBytes[t] <= file[t].size
        /\ status[t] = "done" =>
              result[t] = [filePath |-> file[t].name,
                           totalBytes |-> file[t].size,
                           writtenBytes |-> file[t].size]
        /\ status[t] # "done" => result[t] = NoResult

C21_Witness ==
    \E t \in Transfers :
        /\ status[t] = "done"
        /\ file[t].size = 1025
        /\ result[t].writtenBytes = 1025
        /\ Len(PacketsOf(t)) = 2

\* ---------------------------------------------------------------- claim C24
\* C24: the error of a timeout names the wait at which it happened, so two
\* transfers that timed out at different waits hold different errors.
C24_TimeoutNamesPhase ==
    \A t, u \in Transfers :
        (/\ err[t] = timeoutError(pc[t])
         /\ err[u] = timeoutError(pc[u])
         /\ status[t] = "failed" /\ status[u] = "failed"
         /\ pc[t] # pc[u]) => err[t] # err[u]

\* ---------------------------------------------------------------- claim C27
\* C27: a waitChar call that has settled (by a match in the buffered bytes,
\* by a match in a chunk, or by its timeout) has no 'data' listener on the
\* port and no pending timer: every engine listener and every timer belongs
\* to a wait that is still pending; and a transfer without a registered
\* listener appends nothing to the receive buffer.
Unsettled(t, step) == status[t] = "waiting" /\ pc[t] = step
AppendedBy(seq, t) == Len(SelectSeq(seq, LAMBDA o : o = t))

C27_NoLeak ==
    /\ [](\A k \in 1..Len(listeners) :
            listeners[k].owner # TerminalOwner =>
                Unsettled(listeners[k].owner, listeners[k].step))
    /\ [](\A tm \in timers : Unsettled(tm.owner, tm.step))
    /\ [][\A t \in Transfers :
            ~OwnsListener(t) => AppendedBy(appendedBy', t) <= AppendedBy(appendedBy, t)]_vars

C27_Witness ==
    \E t, u \in Transfers :
        /\ err[t] = "Timeout"
        /\ ~OwnsListener(t) /\ ~OwnsTimer(t)
        /\ status[u] = "writing"
        /\ Len(events[u]) >= 5
        /\ ~OwnsListener(u) /\ ~OwnsTimer(u)

\* ---------------------------------------------------------------- claim C22
\* C22: a transfer called with an empty file name fails with InvalidInput
\* before its first wait: it starts no wait and writes nothing.
C22_InvalidInputRejected ==
    \A t \in Transfers :
        (status[t] # "idle" /\ file[t].name = "") =>
            /\ err[t] = "InvalidInput"
            /\ events[t] = <<>>
            /\ ~OwnsListener(t) /\ ~OwnsTimer(t) /\ ~OwnsWrite(t)

\* ---------------------------------------------------------------- claim C26
\* C26: an accepted byte that is already buffered when a wait starts (left
\* behind the byte of the previous match) satisfies the wait at once: a wait
\* never becomes pending in a turn that leaves a byte it accepts in the
\* buffer; a wait that starts after a write with such a byte buffered is
\* matched in the same turn without a delivery, and no listener or timer of
\* that wait exists afterwards.
StmtAt(t, k) == TransferBody(file[t].name, file[t].size)[k]
Holds(buf, valid) == \E k \in 1..Len(buf) : buf[k] \in valid
Leftmost(buf, valid) ==
    buf[CHOOSE k \in 1..Len(buf) :
            buf[k] \in valid /\ \A j \in 1..(k - 1) : buf[j] \notin valid]
NothingOf(t, step) ==
    /\ \A k \in 1..Len(listeners') :
          ~(listeners'[k].owner = t /\ listeners'[k].step = step)
    /\ \A tm \in timers' : ~(tm.owner = t /\ tm.step = step)
    /\ \A d \in deadlines' : ~(d.owner = t /\ d.step = step)

WaitStarts(t) ==
    /\ status'[t] = "waiting"
    /\ status[t] # "waiting" \/ pc'[t] # pc[t]

C26_BufferedByteUsed ==
    /\ [][\A t \in Transfers :
            WaitStarts(t) =>
                ~Holds(receiveBuffer',
                       TransferBody(file'[t].name, file'[t].size)[pc'[t]].valid)]_vars
    /\ [][\A t \in Transfers :
            (/\ status[t] = "writing"
             /\ OneWriteDone
             /\ StmtAt(t, pc[t] + 1).op = "wait"
             /\ Holds(receiveBuffer, StmtAt(t, pc[t] + 1).valid)) =>
                /\ Len(events'[t]) > Len(events[t])
                /\ events'[t][Len(events[t]) + 1] =
                      EvMatch(Leftmost(receiveBuffer, StmtAt(t, pc[t] + 1).valid))
                /\ pc'[t] > pc[t] + 1
                /\ NothingOf(t, pc[t] + 1)]_vars

\* the ACK and the 'C' behind it were both taken from the buffer in the turn
\* that followed the write of the header
C26_Witness ==
    \E t \in Transfers :
        /\ status[t] = "writing"
        /\ Len(events[t]) = 5
        /\ events[t][2].e = "write"
        /\ events[t][3] = EvMatch(ACK)
        /\ events[t][4] = EvMatch(ASCII_C)
        /\ ~OwnsListener(t) /\ ~OwnsTimer(t)

\* ---------------------------------------------------------------- claim C29
\* C29: only its timeout ends a pending wait without success.  A chunk that
\* leaves the buffer without an accepted byte (CAN at any wait, NAK while ACK
\* is awaited) changes nothing but the buffer: the wait goes on with the same
\* listener and timer, nothing is written and nothing fails.
C29_OnlyTimeoutEndsWait ==
    /\ [][\A t \in Transfers :
            (status[t] = "waiting" /\ status'[t] = "failed") =>
                /\ err'[t] = "Timeout"
                /\ OneTimeout
                /\ \E d \in deadlines :
                      d.owner = t /\ d.step = pc[t] /\ now >= d.at]_vars
    /\ [][\A t \in Transfers, data \in Chunks :
            (/\ status[t] = "waiting"
             /\ OneDeliver(data)
             /\ ~Holds(receiveBuffer \o data, WaitValid(t))) =>
                /\ receiveBuffer' = receiveBuffer \o data
                /\ UNCHANGED <<status, pc, err, events, pending, listeners,
                               timers, deadlines, result, writtenBytes>>]_vars

C29_Witness ==
    \E t \in Transfers :
        /\ status[t] = "waiting"
        /\ err[t] = "none"
        /\ WaitValid(t) = {ACK}
        /\ receiveBuffer = <<CA, NAK>>
        /\ Len(events[t]) >= 2

\* ---------------------------------------------------------------- claim C30
\* C30: bytes other than 'C', ACK and NAK do not influence the protocol.  The
\* run with the noise bytes taken out of the stream is followed step by
\* step: in every step the successor, seen without the noise in its buffer,
\* is what the same step gives from the state without noise (with the noise
\* taken out of the chunk, and no delivery at all when the chunk was noise
\* only).  So both runs make the same writes and progress calls and end with
\* the same result.
Noise == RxBytes \ {ASCII_C, ACK, NAK}
StripNoise(bytes) == SelectSeq(bytes, LAMBDA b : b \notin Noise)
RECURSIVE StripBy(_, _)
StripBy(buf, by) ==
    IF buf = <<>> THEN <<>>
    ELSE (IF Head(buf) \in Noise THEN <<>> ELSE <<Head(by)>>)
         \o StripBy(Tail(buf), Tail(by))

Stripped ==
    [State EXCEPT !.receiveBuffer = StripNoise(receiveBuffer),
                  !.appendedBy = StripBy(receiveBuffer, appendedBy)]
Observed(s) ==
    [buffer |-> StripNoise(s.receiveBuffer), status |-> s.status, pc |-> s.pc,
     events |-> s.events, err |-> s.err, result |-> s.result,
     writtenBytes |-> s.writtenBytes, pending |-> s.pending,
     listeners |-> s.listeners, timers |-> s.timers]
After ==
    [receiveBuffer |-> receiveBuffer', status |-> status', pc |-> pc',
     events |-> events', err |-> err', result |-> result',
     writtenBytes |-> writtenBytes', pending |-> pending',
     listeners |-> listeners', timers |-> timers']

C30_NoiseIgnored ==
    /\ [][\A data \in Chunks :
            OneDeliver(data) =>
                Observed(After) =
                    Observed(IF StripNoise(data) = <<>> THEN Stripped
                             ELSE Drain(Emit(Stripped, listeners, StripNoise(data))))]_vars
    /\ [][OneWriteDone =>
            Observed(After) =
                Observed(Drain(writeResolved([Stripped EXCEPT !.pending = Tail(@)],
                                             Head(pending))))]_vars
    /\ [][\A d \in deadlines :
            (TimerOf(d) \in timers /\ now >= d.at /\ CommitTimed(TimeoutFx(TimerOf(d)))) =>
                Observed(After) =
                    Observed(Drain(waitTimeout(
                        [Stripped EXCEPT !.timers = @ \ {TimerOf(d)}], TimerOf(d))))]_vars
    /\ [][OneWriteFail =>
            Observed(After) =
                Observed(Drain(writeRejected([Stripped EXCEPT !.pending = Tail(@)],
                                             Head(pending))))]_vars
    /\ [][\A u \in Transfers, f \in OneFileNames, n \in FileSizes :
            OneTransfer(u, f, n) =>
                Observed(After) =
                    Observed(Drain(Resume(clearDataListeners(
                        [Stripped EXCEPT !.file[u] = [name |-> f, size |-> n],
                                         !.status[u] = "ready",
                                         !.pc[u] = 1]), u)))]_vars
    /\ [][\A t \in Transfers :
            (status[t] = "done" /\ status'[t] = "done") => result'[t] = result[t]]_vars

\* both data packets were acknowledged by bytes that stood behind noise, and
\* the next byte of the buffer is noise again
C30_Witness ==
    \E t \in Transfers :
        /\ status[t] = "writing"
        /\ file[t].size = 1025
        /\ Len(SelectSeq(events[t], LAMBDA e : e.e = "progress")) = 2
        /\ receiveBuffer # <<>>
        /\ receiveBuffer[1] = CA

\* ---------------------------------------------------------------- claim C25
\* C25: when the buffer holds a byte of the accepted set, the scan returns
\* the leftmost such byte and leaves exactly the bytes that followed it; when
\* it holds none, the buffer is left as it was.
C25_LeftmostMatch ==
    fn = "extractCharFromBuffer" =>
        LET V == {arg.n, arg.m}
            b == arg.data
        IN  IF \E k \in 1..Len(b) : b[k] \in V
            THEN /\ out.ok
                 /\ out.num \in V
                 /\ \E i \in 1..Len(b) :
                       /\ b[i] = out.num
                       /\ \A j \in 1..(i - 1) : b[j] \notin V
                       /\ Len(out.bytes) = Len(b) - i
                       /\ \A j \in 1..Len(out.bytes) : out.bytes[j] = b[i + j]
            ELSE /\ ~out.ok
                 /\ out.bytes = b

C25_Witness ==
    /\ fn = "extractCharFromBuffer"
    /\ arg.data = <<CA, ACK, ASCII_C>>
    /\ arg.n = ACK /\ arg.m = ACK
    /\ out.ok /\ out.num = ACK
    /\ out.bytes = <<ASCII_C>>

\* ---------------------------------------------------------------- claim C28
\* C28: with one transfer on the port, a received byte satisfies at most one
\* wait and a byte passed over by a match never satisfies a later wait.  In
\* every step the bytes matched stand at strictly increasing places of the
\* bytes at hand (the buffer, followed by the chunk when one is taken in),
\* and the buffer afterwards is exactly what followed the last of them; so
\* the places in the stream of the bytes matched by successive waits grow
\* strictly.
NewMatches(t) ==
    LET new == SelectSeq(SubSeq(events'[t], Len(events[t]) + 1, Len(events'[t])),
                         LAMBDA e : e.e = "match")
    IN  [k \in 1..Len(new) |-> new[k].byte]

C28_InOrder(t, all) ==
    LET got == NewMatches(t)
        n == Len(got)
    IN  IF n = 0
        THEN receiveBuffer' = all
        ELSE \E idx \in [1..n -> 1..Len(all)] :
                /\ \A k \in 1..n : all[idx[k]] = got[k]
                /\ \A k \in 1..(n - 1) : idx[k] < idx[k + 1]
                /\ receiveBuffer' = SubSeq(all, idx[n] + 1, Len(all))

C28_TakesChunk(data) == OneDeliver(data) /\ EngineListeners(listeners) # <<>>
C28_Running(t) == status'[t] # "idle" /\ status[t] \notin {"done", "failed"}

C28_ConsumedOnce ==
    [][\A t \in Transfers :
          /\ Len(events'[t]) >= Len(events[t])
          /\ SubSeq(events'[t], 1, Len(events[t])) = events[t]
          /\ \A data \in Chunks :
                (C28_Running(t) /\ C28_TakesChunk(data)) =>
                    C28_InOrder(t, receiveBuffer \o data)
          /\ (C28_Running(t) /\ \A data \in Chunks : ~C28_TakesChunk(data)) =>
                C28_InOrder(t, receiveBuffer)]_vars

\* the NAK that stood before the ACK of the first data packet was passed
\* over by that match: the wait for NAK after the first EOT is pending
C28_Witness ==
    \E t \in Transfers :
        /\ status[t] = "waiting"
        /\ WaitValid(t) = {NAK}
        /\ file[t].size = 1025
        /\ Len(SelectSeq(events[t], LAMBDA e : e.e = "progress")) = 2
        /\ receiveBuffer = <<>>

\* ---------------------------------------------------------------- claim C23
\* C23: with a receiver that sends every prescribed reply some time after
\* the write it answers, the transfer of the 2050-byte file completes for
\* every timing of the deliveries: it never ends in an error (its timers
\* fire only once the receiver has nothing left to send), and when it has
\* returned it has written three data packets (1024, 1024 and 2 file bytes,
\* the last in a 128-byte packet), reported (1,3), (2,3), (3,3) and returned
\* totalBytes = writtenBytes = 2050.
C23_Done(t) ==
    /\ result[t] = [filePath |-> "a.js", totalBytes |-> 2050, writtenBytes |-> 2050]
    /\ LET data == SelectSeq(events[t], IsData)
       IN  /\ Len(data) = 3
           /\ data[1].pkt.type = STX /\ data[1].pkt.len = 1024
           /\ data[2].pkt.type = STX /\ data[2].pkt.len = 1024
           /\ data[3].pkt.type = SOH /\ data[3].pkt.len = 2
    /\ SelectSeq(events[t], LAMBDA e : e.e = "progress")
          = <<EvProgress(1, 3), EvProgress(2, 3), EvProgress(3, 3)>>

C23_Completes ==
    \A t \in Transfers :
        /\ status[t] # "failed"
        /\ (status[t] = "done" /\ file[t].size = RxFileSize) => C23_Done(t)

\* ------------------------------------------------------------------------ C31
\* C31: when every write of the port is called back and every timer fires, a
\* transfer that was called eventually settles, done or failed, whatever the
\* port delivers and also when the port is closed while the transfer runs.
C31_Settles ==
    \A t \in Transfers : (status[t] # "idle") ~> (status[t] \in {"done", "failed"})

\* the port was closed during a wait and the transfer ended by the timeout
C31_Witness ==
    \E t \in Transfers :
        /\ ~PortOpen
        /\ status[t] = "failed"
        /\ err[t] = timeoutError(pc[t])
        /\ events[t] # <<>>
        /\ loop.last = "timer"

\* ------------------------------------------------------------------------ C32
\* C32: the ACK that takes the transfer past the wait after the write of a data
\* packet was delivered after that write was issued.  No handler of the
\* transfer is registered while the write is pending, so the bytes buffered
\* when the wait starts were delivered before the write was issued: the wait
\* may only end by an ACK of a chunk delivered during the wait, never by an
\* ACK that the buffer already held.
DataAckWait(t, k) ==
    /\ k > 1
    /\ StmtAt(t, k).op = "wait"
    /\ StmtAt(t, k - 1).op = "write"
    /\ StmtAt(t, k - 1).pkt.form = "data"

C32_AckAfterWrite ==
    [][\A t \in Transfers :
          (/\ status[t] # "idle"
           /\ \E k \in pc[t]..(pc'[t] - 1) : DataAckWait(t, k)) =>
                /\ ~Holds(receiveBuffer, {ACK})
                /\ \E data \in Chunks : OneDeliver(data) /\ Holds(data, {ACK})]_vars

\* ------------------------------------------------------------------------ C33
\* C33: transfer() leaves the 'data' listeners of other parties alone: the
\* listener the terminal registered before the call is still registered when
\* the transfer has settled, whether or not the transport offers
\* removeAllListeners.
C33_ForeignListenersKept ==
    \A t \in Transfers :
        status[t] \in {"done", "failed"} =>
            \E k \in 1..Len(listeners) : listeners[k].owner = TerminalOwner

\* ------------------------------------------------------------------------ C34
\* C34: whatever fileBuffer is, a Buffer or a Uint8Array over any part of its
\* ArrayBuffer, totalBytes is the number of its elements and the file bytes
\* carried by the data packets, in order, are exactly its elements.
RECURSIVE CarriedBytes(_, _, _)
CarriedBytes(buffer, pkts, i) ==
    IF i > Len(pkts) THEN <<>>
    ELSE SubSeq(buffer, pkts[i].off + 1, pkts[i].off + pkts[i].len)
         \o CarriedBytes(buffer, pkts, i + 1)

C34_SendsTheView ==
    fn \in {"Buffer", "Uint8Array"} =>
        /\ out.num = arg.m
        /\ CarriedBytes(out.bytes, out.pkts, 1) = viewBytes(arg.data, arg.n, arg.m)

\* ------------------------------------------------------------------------ C35
\* C35: for a file of length zero the transfer writes no data packet and
\* reports no progress.  Everything it does is a prefix of: 'C', header(name,
\* 0), ACK, 'C', EOT, NAK, EOT, ACK, 'C', terminator, ACK; the EOT follows the
\* second 'C' directly, and the result is totalBytes = writtenBytes = 0.
ZeroSession(t) ==
    <<EvMatch(ASCII_C), EvWrite(buildHeaderPacket(file[t].name, 0)),
      EvMatch(ACK), EvMatch(ASCII_C),
      EvWrite(EotPacket), EvMatch(NAK),
      EvWrite(EotPacket), EvMatch(ACK), EvMatch(ASCII_C),
      EvWrite(buildHeaderPacket("", 0)), EvMatch(ACK)>>

C35_EmptyFile ==
    \A t \in Transfers :
        (status[t] # "idle" /\ file[t].size = 0) =>
            /\ Len(events[t]) <= Len(ZeroSession(t))
            /\ events[t] = SubSeq(ZeroSession(t), 1, Len(events[t]))
            /\ writtenBytes[t] = 0
            /\ status[t] = "done" =>
                  /\ events[t] = ZeroSession(t)
                  /\ result[t] = [filePath |-> file[t].name, totalBytes |-> 0,
                                  writtenBytes |-> 0]

C35_Witness ==
    \E t \in Transfers :
        /\ file[t].size = 0
        /\ status[t] = "done"
        /\ Len(Writes(t)) = 4

\* ------------------------------------------------------------------------ C36
\* C36: the run command has been sent to the device only if the transfer of
\* the file has finished and completed successfully; after a failed transfer
\* no run command is sent.
C36_RunsOnlyAfterSuccess ==
    \A k \in 1..Len(runJS.sent) :
        runJS.sent[k].text = RunCommand =>
            LET t == runJS.cmd[runJS.sent[k].by].t
            IN  t # 0 /\ status[t] = "done"

\* ------------------------------------------------------------------------ C37
\* C37: after any sequence of inputs the history index is between -1 and one
\* less than the number of entries, the history has at most 100 entries, no
\* entry is empty or all white space, and no two adjacent entries are equal.
C37_HistoryInvariant ==
    LET h == term.commandHistory
    IN  /\ term.historyIndex >= 0 - 1
        /\ term.historyIndex <= Len(h) - 1
        /\ Len(h) <= 100
        /\ \A k \in 1..Len(h) : \E c \in 1..Len(h[k]) : h[k][c] # " "
        /\ \A k \in 1..(Len(h) - 1) : h[k] # h[k + 1]

\* the history is full and an older entry is shown
C37_Witness ==
    /\ Len(term.commandHistory) = HISTORY_LIMIT
    /\ term.historyIndex = HISTORY_LIMIT - 1
    /\ term.inputBuffer = term.commandHistory[1]

\* ------------------------------------------------------------------------ C38
\* C38: whenever Enter submits a line that is not empty, the history index is
\* -1 right afterwards, also when the line was recalled from the history or
\* equals the last entry.
C38_EnterResetsNavigation ==
    [][\A writable \in BOOLEAN :
          (/\ ~term.isSending
           /\ Len(term.inputBuffer) > 0
           /\ TermInput(KeyEnter, writable)) =>
                term'.historyIndex = 0 - 1]_vars

====
